---------------------------- MODULE Spec2Model ----------------------------
(***************************************************************************)
(* Baby-Data-Tracker: the Telegram bot of src/bot.py, its Google-Sheets    *)
(* log and the /summary aggregation over that log.                         *)
(*                                                                         *)
(* src/bot.py carries unresolved merge markers.  Of each conflict the      *)
(* model follows the HEAD side: it is the only side that declares the five *)
(* rollups (Today, Yesterday, 7, 30 and 90 days), the vitamin_d field and  *)
(* the records_*_days lists that the lines common to all sides use.        *)
(*                                                                         *)
(* Text is modelled as a sequence of one-character strings, so that        *)
(* strftime, strptime, str.split, the "in" test and int() are computed     *)
(* character by character.  The alphabet of the inputs is ASCII letters,   *)
(* digits, space and "-", ":", "/", "+".                                   *)
(***************************************************************************)
EXTENDS Integers, Sequences, FiniteSets, TLC

(***************************************************************************)
(* Characters and Python's str / int primitives.                           *)
(***************************************************************************)
DigitChars == <<"0", "1", "2", "3", "4", "5", "6", "7", "8", "9">>

DigitSet == {"0", "1", "2", "3", "4", "5", "6", "7", "8", "9"}

IsDigit(c) == c \in DigitSet

DigitVal(c) ==
    CASE c = "0" -> 0 [] c = "1" -> 1 [] c = "2" -> 2 [] c = "3" -> 3 [] c = "4" -> 4
      [] c = "5" -> 5 [] c = "6" -> 6 [] c = "7" -> 7 [] c = "8" -> 8 [] c = "9" -> 9

\* The number of consecutive digits of s starting at position i.
RECURSIVE DigitRun(_, _)
DigitRun(s, i) ==
    IF i <= Len(s) /\ IsDigit(s[i]) THEN 1 + DigitRun(s, i + 1) ELSE 0

\* The number of consecutive spaces of s starting at position i.
RECURSIVE SpaceRun(_, _)
SpaceRun(s, i) ==
    IF i <= Len(s) /\ s[i] = " " THEN 1 + SpaceRun(s, i + 1) ELSE 0

\* The decimal value of the n digits of s starting at position i.
RECURSIVE NumVal(_, _, _)
NumVal(s, i, n) ==
    IF n = 0 THEN 0 ELSE NumVal(s, i, n - 1) * 10 + DigitVal(s[i + n - 1])

\* str(n) for n >= 0, zero-padded to at least w characters (strftime's %Y, %m ...).
RECURSIVE Pad(_, _)
Pad(n, w) ==
    IF w <= 1 /\ n < 10 THEN <<DigitChars[n + 1]>>
    ELSE Pad(n \div 10, w - 1) \o <<DigitChars[(n % 10) + 1]>>

\* needle in hay (Python's substring test on str).
Contains(hay, needle) ==
    \E i \in 1..(Len(hay) - Len(needle) + 1) :
        \A j \in 1..Len(needle) : hay[i + j - 1] = needle[j]

\* s.split(' ')[0]: the characters before the first space.
RECURSIVE FirstToken(_)
FirstToken(s) ==
    IF s = <<>> \/ Head(s) = " " THEN <<>> ELSE <<Head(s)>> \o FirstToken(Tail(s))

\* int(s) on text: an optional sign and one or more digits, else ValueError.
PyIntDigits(negative, body) ==
    IF body # <<>> /\ DigitRun(body, 1) = Len(body)
    THEN [ok |-> TRUE,
          val |-> IF negative THEN 0 - NumVal(body, 1, Len(body))
                  ELSE NumVal(body, 1, Len(body))]
    ELSE [ok |-> FALSE, val |-> 0]

PyInt(s) ==
    IF s # <<>> /\ Head(s) \in {"+", "-"}
    THEN PyIntDigits(Head(s) = "-", Tail(s))
    ELSE PyIntDigits(FALSE, s)

\* s.isdigit(): non-empty and all digits.
IsDigitStr(s) == s # <<>> /\ DigitRun(s, 1) = Len(s)

(***************************************************************************)
(* Values as Python sees them: text or int (a cell get_all_records has     *)
(* numericised), tagged by their type.                                     *)
(***************************************************************************)
StrV(s) == [t |-> "str", s |-> s, n |-> 0]
IntV(n) == [t |-> "int", s |-> <<>>, n |-> n]

(***************************************************************************)
(* The proleptic Gregorian calendar of datetime.date.                      *)
(***************************************************************************)
IsLeap(y) == (y % 4 = 0) /\ ((y % 100 # 0) \/ (y % 400 = 0))

DaysInMonth(y, m) ==
    IF m = 2 THEN (IF IsLeap(y) THEN 29 ELSE 28)
    ELSE IF m \in {4, 6, 9, 11} THEN 30 ELSE 31

RECURSIVE DaysBeforeMonth(_, _)
DaysBeforeMonth(y, m) ==
    IF m <= 1 THEN 0 ELSE DaysBeforeMonth(y, m - 1) + DaysInMonth(y, m - 1)

DaysBeforeYear(y) ==
    (y - 1) * 365 + ((y - 1) \div 4) - ((y - 1) \div 100) + ((y - 1) \div 400)

\* date(y, m, d).toordinal(): date differences are differences of ordinals.
ToOrdinal(y, m, d) == DaysBeforeYear(y) + DaysBeforeMonth(y, m) + d

(***************************************************************************)
(* datetime.strptime.  The format compiles to a regular expression whose   *)
(* numeric fields are separated by literal characters, so each field is    *)
(* the whole run of digits before the next separator.                      *)
(***************************************************************************)
PFail == [ok |-> FALSE, pos |-> 0, vals |-> <<>>]

\* A numeric directive: lenMin..lenMax digits with a value in lo..hi.
PNumVal(p, run, val, lo, hi) ==
    IF val >= lo /\ val <= hi
    THEN [ok |-> TRUE, pos |-> p.pos + run, vals |-> Append(p.vals, val)]
    ELSE PFail

PNumRun(p, run, s, lenMin, lenMax, lo, hi) ==
    IF run >= lenMin /\ run <= lenMax
    THEN PNumVal(p, run, NumVal(s, p.pos, run), lo, hi)
    ELSE PFail

PNum(p, s, lenMin, lenMax, lo, hi) ==
    IF ~p.ok THEN PFail
    ELSE PNumRun(p, DigitRun(s, p.pos), s, lenMin, lenMax, lo, hi)

\* %d also accepts a space followed by one digit 1..9.
PDay(p, s) ==
    IF ~p.ok THEN PFail
    ELSE IF p.pos <= Len(s) /\ s[p.pos] = " "
         THEN PNum([p EXCEPT !.pos = p.pos + 1], s, 1, 1, 1, 9)
         ELSE PNum(p, s, 1, 2, 1, 31)

\* A literal character of the format.
PLit(p, s, c) ==
    IF p.ok /\ p.pos <= Len(s) /\ s[p.pos] = c
    THEN [p EXCEPT !.pos = p.pos + 1] ELSE PFail

\* A space of the format matches one or more spaces.
PSpaces(p, s) ==
    IF p.ok /\ SpaceRun(s, p.pos) >= 1
    THEN [p EXCEPT !.pos = p.pos + SpaceRun(s, p.pos)] ELSE PFail

\* The whole text must be consumed ("unconverted data remains").
PEnd(p, s) == IF p.ok /\ p.pos = Len(s) + 1 THEN p ELSE PFail

\* '%Y-%m-%d %H:%M' up to the minutes.
PDateHourMinute(s) ==
    LET p0 == [ok |-> TRUE, pos |-> 1, vals |-> <<>>]
        pY == PLit(PNum(p0, s, 4, 4, 0, 9999), s, "-")
        pm == PLit(PNum(pY, s, 1, 2, 1, 12), s, "-")
        pd == PSpaces(PDay(pm, s), s)
        pH == PLit(PNum(pd, s, 1, 2, 0, 23), s, ":")
    IN  PNum(pH, s, 1, 2, 0, 59)

\* The naive datetime of the matched fields; datetime() rejects year 0, a day
\* past the end of the month and the leap seconds 60 and 61 that %S matches.
MakeDatetime(p) ==
    IF p.ok /\ p.vals[1] >= 1 /\ p.vals[3] <= DaysInMonth(p.vals[1], p.vals[2])
       /\ p.vals[6] <= 59
    THEN [exc |-> "none", y |-> p.vals[1], m |-> p.vals[2], d |-> p.vals[3],
          H |-> p.vals[4], M |-> p.vals[5], S |-> p.vals[6]]
    ELSE [exc |-> "ValueError", y |-> 0, m |-> 0, d |-> 0, H |-> 0, M |-> 0, S |-> 0]

TypeErrorDatetime ==
    [exc |-> "TypeError", y |-> 0, m |-> 0, d |-> 0, H |-> 0, M |-> 0, S |-> 0]

\* datetime.strptime(v, '%Y-%m-%d %H:%M:%S')
strptime_seconds(v) ==
    IF v.t # "str" THEN TypeErrorDatetime
    ELSE MakeDatetime(PEnd(PNum(PLit(PDateHourMinute(v.s), v.s, ":"),
                                v.s, 1, 2, 0, 61), v.s))

\* datetime.strptime(v, '%Y-%m-%d %H:%M')
strptime_minutes(v) ==
    IF v.t # "str" THEN TypeErrorDatetime
    ELSE LET p == PEnd(PDateHourMinute(v.s), v.s)
         IN  MakeDatetime(IF p.ok THEN [p EXCEPT !.vals = Append(p.vals, 0)] ELSE p)

\* A variant that leaves out the seconds.
strftime_without_seconds(now) ==
    Pad(now.y, 4) \o <<"-">> \o Pad(now.m, 2) \o <<"-">> \o Pad(now.d, 2) \o <<" ">>
    \o Pad(now.H, 2) \o <<":">> \o Pad(now.M, 2)

\* A variant that writes the ISO 8601 separator between date and time.
strftime_isoformat(now) ==
    Pad(now.y, 4) \o <<"-">> \o Pad(now.m, 2) \o <<"-">> \o Pad(now.d, 2) \o <<"T">>
    \o Pad(now.H, 2) \o <<":">> \o Pad(now.M, 2) \o <<":">> \o Pad(now.S, 2)

\* now.strftime('%Y-%m-%d %H:%M:%S')
strftime(now) ==
    Pad(now.y, 4) \o <<"-">> \o Pad(now.m, 2) \o <<"-">> \o Pad(now.d, 2) \o <<" ">>
    \o Pad(now.H, 2) \o <<":">> \o Pad(now.M, 2) \o <<":">> \o Pad(now.S, 2)

(***************************************************************************)
(* Text constants of the program.                                          *)
(***************************************************************************)
T_Timestamp == <<"T", "i", "m", "e", "s", "t", "a", "m", "p">>
T_ActivityType == <<"A", "c", "t", "i", "v", "i", "t", "y", " ", "T", "y", "p", "e">>
T_ValueDetails == <<"V", "a", "l", "u", "e", "/", "D", "e", "t", "a", "i", "l", "s">>
T_TelegramUserID == <<"T", "e", "l", "e", "g", "r", "a", "m", " ", "U", "s", "e", "r", " ", "I", "D">>
T_Pee == <<"P", "e", "e">>
T_Poop == <<"P", "o", "o", "p">>
T_Feed == <<"F", "e", "e", "d">>
T_Medication == <<"M", "e", "d", "i", "c", "a", "t", "i", "o", "n">>
T_VitaminD == <<"V", "i", "t", "a", "m", "i", "n", " ", "D">>
T_NA == <<"N", "/", "A">>
T_mins == <<"m", "i", "n", "s">>
T_space_mins == <<" ", "m", "i", "n", "s">>

\* The header row _get_or_create_worksheet writes.
headers == <<T_Timestamp, T_ActivityType, T_ValueDetails, T_TelegramUserID>>

(***************************************************************************)
(* The worksheet as gspread reads it.  get_all_records takes the first row *)
(* as the keys, and turns every cell that int() accepts into an int.       *)
(***************************************************************************)
NumericisedAs(n, cell) == IF n.ok THEN IntV(n.val) ELSE StrV(cell)

numericise(cell) == NumericisedAs(PyInt(cell), cell)

get_all_records(ws) ==
    IF Len(ws) <= 1 THEN <<>>
    ELSE [k \in 1..(Len(ws) - 1) |->
            [keys |-> ws[1],
             vals |-> [j \in 1..Len(ws[k + 1]) |-> numericise(ws[k + 1][j])]]]

KeyErrorV == [t |-> "KeyError", s |-> <<>>, n |-> 0]

\* record[key]
Lookup(record, key) ==
    IF \E j \in 1..Len(record.keys) : j <= Len(record.vals) /\ record.keys[j] = key
    THEN record.vals[CHOOSE j \in 1..Len(record.keys) :
                        j <= Len(record.vals) /\ record.keys[j] = key]
    ELSE KeyErrorV

(***************************************************************************)
(* The rollups of summary().                                               *)
(***************************************************************************)
\* The order in which summary() tests and updates its five dictionaries.
SummaryNames == <<"today", "yesterday", "last_7_days", "last_30_days", "last_90_days">>

Buckets == {SummaryNames[i] : i \in 1..Len(SummaryNames)}

ZeroSummary ==
    [pee |-> 0, poop |-> 0, feed_count |-> 0, feed_total_mins |-> 0,
     medications |-> 0, vitamin_d |-> 0]

\* A variant that lets the ValueError of int() escape the call.
AddDuration_raising(counted, duration) ==
    IF duration.ok
    THEN [d |-> [counted EXCEPT !.feed_total_mins = @ + duration.val], exc |-> "none"]
    ELSE [d |-> counted, exc |-> "ValueError"]

\* duration = int(value.split(' ')[0]) and the addition, or the ValueError
\* that update_summary_dict swallows.
AddDuration(counted, duration) ==
    IF duration.ok
    THEN [d |-> [counted EXCEPT !.feed_total_mins = @ + duration.val], exc |-> "none"]
    ELSE [d |-> counted, exc |-> "none"]

\* A variant that counts a Pee under poop as well.
update_summary_dict_pee_and_poop(summary_dict, activity, value) ==
    IF activity = StrV(T_Pee)
    THEN [d |-> [summary_dict EXCEPT !.pee = @ + 1, !.poop = @ + 1], exc |-> "none"]
    ELSE [d |-> summary_dict, exc |-> "none"]

\* A variant that rejects an activity it does not know.
update_summary_dict_unknown_raising(summary_dict, activity, value) ==
    IF activity = StrV(T_Pee)
    THEN [d |-> [summary_dict EXCEPT !.pee = @ + 1], exc |-> "none"]
    ELSE IF activity = StrV(T_Poop)
    THEN [d |-> [summary_dict EXCEPT !.poop = @ + 1], exc |-> "none"]
    ELSE IF activity = StrV(T_Medication)
    THEN [d |-> [summary_dict EXCEPT !.medications = @ + 1], exc |-> "none"]
    ELSE [d |-> summary_dict, exc |-> "KeyError"]

\* update_summary_dict: the dictionary as the call leaves it, and the exception
\* that escapes it ("none" when it returns).
update_summary_dict(summary_dict, activity, value) ==
    IF activity = StrV(T_Pee)
    THEN [d |-> [summary_dict EXCEPT !.pee = @ + 1], exc |-> "none"]
    ELSE IF activity = StrV(T_Poop)
    THEN [d |-> [summary_dict EXCEPT !.poop = @ + 1], exc |-> "none"]
    ELSE IF activity = StrV(T_Feed)
    THEN LET counted == [summary_dict EXCEPT !.feed_count = @ + 1]
         IN  IF value.t # "str"
             THEN [d |-> counted, exc |-> "TypeError"]   \* 'mins' in <int>
             ELSE IF Contains(value.s, T_mins)
             THEN AddDuration(counted, PyInt(FirstToken(value.s)))
             ELSE [d |-> counted, exc |-> "none"]
    ELSE IF activity = StrV(T_Medication)
    THEN [d |-> [summary_dict EXCEPT !.medications = @ + 1], exc |-> "none"]
    ELSE [d |-> summary_dict, exc |-> "none"]

\* The test summary() makes before it updates the dictionary named b.
InWindow(b, today_ist, record_date_ist) ==
    CASE b = "today"        -> record_date_ist = today_ist
      [] b = "yesterday"    -> record_date_ist = today_ist - 1
      [] b = "last_7_days"  -> today_ist - record_date_ist < 7
      [] b = "last_30_days" -> today_ist - record_date_ist < 30
      [] b = "last_90_days" -> today_ist - record_date_ist < 90

\* A variant without the second format.
OrWithoutSeconds_no_fallback(with_seconds, ts) == with_seconds

\* The timestamp of a record: the format with seconds, then on ValueError the
\* format without; IST.localize keeps the calendar date.
OrWithoutSeconds(with_seconds, ts) ==
    IF with_seconds.exc = "ValueError" THEN strptime_minutes(ts) ELSE with_seconds

ParseTimestamp(ts) == OrWithoutSeconds(strptime_seconds(ts), ts)

\* The locals once update_summary_dict has been called on the dictionary b for
\* the k-th record and has ended as u: an exception leaves the iteration, and
\* otherwise the record joins the list of the window.
AfterUpdate(st, b, k, u) ==
    IF u.exc # "none"
    THEN [st EXCEPT !.sums[b] = u.d, !.applied = @ \cup {b}, !.exc = u.exc]
    ELSE [st EXCEPT
            !.sums[b] = u.d, !.applied = @ \cup {b},
            !.records_7_days  = IF b = "last_7_days"  THEN Append(@, k) ELSE @,
            !.records_30_days = IF b = "last_30_days" THEN Append(@, k) ELSE @,
            !.records_90_days = IF b = "last_90_days" THEN Append(@, k) ELSE @]

\* The five tests of one loop iteration, from the i-th on.  st.exc names the
\* exception that left update_summary_dict, after which the rest is not run;
\* st.applied collects the dictionaries update_summary_dict was called on.
RECURSIVE FanOut(_, _, _, _, _, _, _)
FanOut(st, i, k, today_ist, record_date_ist, activity_type, value_details) ==
    IF i > Len(SummaryNames) \/ st.exc # "none" THEN st
    ELSE IF ~InWindow(SummaryNames[i], today_ist, record_date_ist)
    THEN FanOut(st, i + 1, k, today_ist, record_date_ist, activity_type, value_details)
    ELSE FanOut(AfterUpdate(st, SummaryNames[i], k,
                            update_summary_dict(st.sums[SummaryNames[i]],
                                                activity_type, value_details)),
                i + 1, k, today_ist, record_date_ist, activity_type, value_details)

\* A variant that files a record whose timestamp does not parse under today.
ProcessParsed_unparsed_as_today(st, k, ts, dt, act, val, today_ist) ==
    IF ts.t = "KeyError" THEN [st EXCEPT !.exc = "KeyError"]
    ELSE IF dt.exc # "none" THEN FanOut(st, 1, k, today_ist, today_ist, act, val)
    ELSE IF act.t = "KeyError" \/ val.t = "KeyError" THEN [st EXCEPT !.exc = "KeyError"]
    ELSE FanOut(st, 1, k, today_ist, ToOrdinal(dt.y, dt.m, dt.d), act, val)

\* The body of the try once the three cells are read and the timestamp parsed.
ProcessParsed(st, k, ts, dt, act, val, today_ist) ==
    IF ts.t = "KeyError" THEN [st EXCEPT !.exc = "KeyError"]
    ELSE IF dt.exc # "none" THEN [st EXCEPT !.exc = dt.exc]
    ELSE IF act.t = "KeyError" \/ val.t = "KeyError" THEN [st EXCEPT !.exc = "KeyError"]
    ELSE FanOut(st, 1, k, today_ist, ToOrdinal(dt.y, dt.m, dt.d), act, val)

\* One iteration of "for record in all_records": the body of the try, and the
\* "except Exception" that logs the record as skipped and continues.
ProcessRecord(st, k, record, today_ist) ==
    ProcessParsed([st EXCEPT !.exc = "none", !.applied = {}], k,
                  Lookup(record, T_Timestamp),
                  ParseTimestamp(Lookup(record, T_Timestamp)),
                  Lookup(record, T_ActivityType),
                  Lookup(record, T_ValueDetails), today_ist)

\* The locals of summary() before the loop.
InitialLocals ==
    [sums |-> [b \in Buckets |-> ZeroSummary],
     records_7_days |-> <<>>, records_30_days |-> <<>>, records_90_days |-> <<>>,
     exc |-> "none", applied |-> {}]

\* The locals after each of the first n iterations: Loop(...)[j] is the state
\* in which iteration j ended (its exc is the exception the iteration skipped on).
LoopStep(before, all_records, today_ist, n) ==
    Append(before,
           ProcessRecord(IF n = 1 THEN InitialLocals ELSE before[n - 1],
                         n, all_records[n], today_ist))

RECURSIVE Loop(_, _, _)
Loop(all_records, today_ist, n) ==
    IF n = 0 THEN <<>>
    ELSE LoopStep(Loop(all_records, today_ist, n - 1), all_records, today_ist, n)

(***************************************************************************)
(* The chart of a rolling window: one count per calendar date and display  *)
(* category.  cells is the grouped table the bars are drawn from.          *)
(***************************************************************************)
expected_activities == <<T_Poop, T_Pee, T_Feed, T_Medication, T_VitaminD>>

\* parse_and_localize_timestamp: a ValueError of the second format escapes.
LocalizedDate(dt) ==
    [exc |-> dt.exc, date |-> IF dt.exc = "none" THEN ToOrdinal(dt.y, dt.m, dt.d) ELSE 0]

parse_and_localize_timestamp(ts) == LocalizedDate(ParseTimestamp(ts))

\* A variant that leaves a "Vitamin D" medication under Medication.
ActivityTypePlot_as_logged(record) == Lookup(record, T_ActivityType)

\* df['Activity Type Plot']
ActivityTypePlot(record) ==
    IF Lookup(record, T_ActivityType) = StrV(T_Medication)
       /\ Lookup(record, T_ValueDetails) = StrV(T_VitaminD)
    THEN StrV(T_VitaminD) ELSE Lookup(record, T_ActivityType)

\* The chart once df['Date'] is computed.  activities_to_plot keeps the
\* expected activities that occur; DataFrame.plot of no column at all raises
\* TypeError ("no numeric data to plot").
ChartOfDates(records_for_period, dates) ==
    IF \E k \in DOMAIN dates : dates[k].exc # "none"
    THEN [exc |-> dates[CHOOSE k \in DOMAIN dates : dates[k].exc # "none"].exc,
          buf |-> "None", cells |-> <<>>]
    ELSE IF \A k \in DOMAIN dates :
               ActivityTypePlot(records_for_period[k])
                   \notin {StrV(expected_activities[i]) : i \in DOMAIN expected_activities}
    THEN [exc |-> "TypeError", buf |-> "None", cells |-> <<>>]
    ELSE [exc |-> "none", buf |-> "png",
          cells |-> [k \in DOMAIN dates |->
                       [date |-> dates[k].date,
                        plot |-> ActivityTypePlot(records_for_period[k])]]]

\* activity_counts: df.groupby(['Date', 'Activity Type Plot']).size().unstack(
\* fill_value=0) and the columns of expected_activities added with 0: for each
\* date of the records and each column, the number of records grouped there.
activity_counts(cells) ==
    [dc \in {cells[k].date : k \in DOMAIN cells}
            \X ({cells[k].plot : k \in DOMAIN cells}
                    \cup {StrV(expected_activities[i]) : i \in DOMAIN expected_activities})
        |-> Cardinality({k \in DOMAIN cells :
                            cells[k].date = dc[1] /\ cells[k].plot = dc[2]})]

generate_activity_bar_chart(records_for_period) ==
    IF records_for_period = <<>> THEN [exc |-> "none", buf |-> "None", cells |-> <<>>]
    ELSE ChartOfDates(records_for_period,
                      [k \in 1..Len(records_for_period) |->
                         parse_and_localize_timestamp(
                             Lookup(records_for_period[k], T_Timestamp))])

(***************************************************************************)
(* The messages a handler sends.                                           *)
(***************************************************************************)
ReplyText(text) == [kind |-> "text", text |-> text, blocks |-> <<>>]
ReplyHtml(blocks) == [kind |-> "html", text |-> "summary", blocks |-> blocks]
ReplyPhoto(period_name) == [kind |-> "photo", text |-> period_name, blocks |-> <<>>]

\* today_ist.strftime('%Y-%m-%d') in parentheses
DateInfo(ordinal_known, now) ==
    IF ordinal_known THEN Pad(now.y, 4) \o <<"-">> \o Pad(now.m, 2) \o <<"-">> \o Pad(now.d, 2)
    ELSE <<>>

\* format_summary(title, data, date_info=""): the block of text for one rollup.
\* The function has no period_days parameter: a call that passes the keyword
\* raises TypeError.
format_summary(title, data, date_info, passes_period_days) ==
    [exc |-> IF passes_period_days THEN "TypeError" ELSE "none",
     title |-> title, date_info |-> date_info,
     pee |-> data.pee, poop |-> data.poop, feed_count |-> data.feed_count,
     feed_total_mins |-> data.feed_total_mins, medications |-> data.medications]

\* context.args[0].lower() on the arguments the model draws.
Lower(word) ==
    CASE word = "TODAY"  -> "today"
      [] word = "7Days"  -> "7days"
      [] OTHER           -> word

\* The format_summary calls of the branch summary() takes for arg, in order:
\* the rollup each is given, and whether it passes period_days.
SummaryCalls(arg) ==
    CASE arg = "today"     -> <<[title |-> "Current Day", b |-> "today", dated |-> "today", kw |-> FALSE]>>
      [] arg = "yesterday" -> <<[title |-> "Previous Day", b |-> "yesterday", dated |-> "yesterday", kw |-> FALSE]>>
      [] arg = "7days"     -> <<[title |-> "Last 7 Days", b |-> "last_7_days", dated |-> "", kw |-> TRUE]>>
      [] arg = "1month"    -> <<[title |-> "Last 1 Month", b |-> "last_30_days", dated |-> "", kw |-> TRUE]>>
      [] arg = "3month"    -> <<[title |-> "Last 3 Months", b |-> "last_90_days", dated |-> "", kw |-> TRUE]>>
      [] OTHER             -> <<[title |-> "Current Day", b |-> "today", dated |-> "today", kw |-> FALSE],
                                [title |-> "Previous Day", b |-> "yesterday", dated |-> "yesterday", kw |-> FALSE],
                                [title |-> "Last 7 Days", b |-> "last_7_days", dated |-> "", kw |-> TRUE],
                                [title |-> "Last 1 Month", b |-> "last_30_days", dated |-> "", kw |-> TRUE],
                                [title |-> "Last 3 Months", b |-> "last_90_days", dated |-> "", kw |-> TRUE]>>

\* graph_data and graph_period_name of the branch.
GraphPeriod(arg) ==
    CASE arg = "7days"  -> "Last 7 Days"
      [] arg = "1month" -> "Last 30 Days"
      [] arg = "3month" -> "Last 90 Days"
      [] OTHER          -> ""

\* A variant that charts the last 7 days for today's summary as well.
GraphData_for_today(arg, final) ==
    CASE arg = "7days"  -> final.records_7_days
      [] arg = "today"  -> final.records_7_days
      [] arg = "1month" -> final.records_30_days
      [] arg = "3month" -> final.records_90_days
      [] OTHER          -> <<>>

GraphData(arg, final) ==
    CASE arg = "7days"  -> final.records_7_days
      [] arg = "1month" -> final.records_30_days
      [] arg = "3month" -> final.records_90_days
      [] OTHER          -> <<>>

(***************************************************************************)
(* State.                                                                  *)
(***************************************************************************)
VARIABLES
    worksheet,   \* the rows of the "BabyLog" sheet, the header row first
    clock,       \* datetime.now(IST)
    replies,     \* the messages the handler of the last step sent, in order
    locals,      \* the locals of summary() when the last step ran it
    queries,     \* the summary() calls that run side by side, each with its locals
    startup,     \* what _get_or_create_worksheet found and did when last called
    user_data,   \* context.user_data of each user: what the bot awaits from them
    telegram_app_instance,   \* the global of that name: None until the bot is set up
    response     \* what webhook_handler returned to the last request

vars == <<worksheet, clock, replies, locals, queries, startup,
          user_data, telegram_app_instance, response>>

\* The state of the webhook endpoint.
web == <<telegram_app_instance, response>>

\* Bounds of the model: the data rows of the sheet under each specification,
\* and the days the clock advances.
MaxRows == 2
MaxRecordRows == 1
MaxLogRows == 3
MaxConcurrentRows == 2
MaxBootRows == 2
MaxTicks == 1

StartClock == [y |-> 2024, m |-> 1, d |-> 6, H |-> 8, M |-> 30, S |-> 5]

NoLocals ==
    [ran |-> FALSE, fetched |-> FALSE, arg |-> "", all_records |-> <<>>,
     today_ist |-> 0, steps |-> <<>>, final |-> InitialLocals]

\* The summary() calls that may run side by side, and one that is not running.
Queries == {"q1", "q2"}

IdleQuery == [pc |-> "idle", all_records |-> <<>>, today_ist |-> 0, n |-> 0, st |-> InitialLocals]

\* The bot constructed on a spreadsheet without the sheet: created, header appended.
Started == [done |-> TRUE, found |-> FALSE, header_appends |-> 1]

\* update.effective_user.id of the users of the chat.
EffectiveUserIds == {1001, 1002}

\* context.user_data of a user the bot has not prompted: an empty dict.
NoUserData == [u \in EffectiveUserIds |-> "absent"]

\* No request has been answered yet.  Besides the body and the status returned,
\* response keeps what the handler met: the global it read, whether its try
\* block raised, and whether process_update returned.
NoResponse == [body |-> "", status |-> 0, app |-> "", raised |-> FALSE, processed |-> FALSE]

Init ==
    /\ worksheet = <<headers>>
    /\ clock = StartClock
    /\ replies = <<>>
    /\ locals = NoLocals
    /\ queries = [q \in Queries |-> IdleQuery]
    /\ startup = Started
    /\ user_data = NoUserData
    /\ telegram_app_instance = "Application"
    /\ response = NoResponse

(***************************************************************************)
(* _get_or_create_worksheet, called by __init__.  Before the call          *)
(* startup.found tells whether the spreadsheet has the sheet, and          *)
(* worksheet holds its rows (none when there is no sheet); after it        *)
(* startup.header_appends counts the append_row(headers) the call made.    *)
(***************************************************************************)
\* A variant that does not see the row appended a moment ago.
row_values_unseen(ws, i) == <<>>

\* worksheet.row_values(i): the cells of row i, none for a row that is not there.
row_values(ws, i) == IF i <= Len(ws) THEN ws[i] ELSE <<>>

\* The sheet after the try: found as it is, or created and given the header.
AfterLookup(found, ws) == IF found THEN ws ELSE <<headers>>

get_or_create_worksheet ==
    /\ ~startup.done
    /\ \E append_ok \in BOOLEAN :
          IF ~append_ok /\ (~startup.found \/ row_values(worksheet, 1) = <<>>)
          THEN \* append_row raises: the sheet exists by now, and is empty
               /\ worksheet' = <<>>
               /\ startup' = [done |-> FALSE, found |-> TRUE, header_appends |-> 0]
          ELSE IF row_values(AfterLookup(startup.found, worksheet), 1) = <<>>
          THEN /\ worksheet' = Append(AfterLookup(startup.found, worksheet), headers)
               /\ startup' = [startup EXCEPT
                                !.done = TRUE,
                                !.header_appends = IF startup.found THEN 1 ELSE 2]
          ELSE /\ worksheet' = AfterLookup(startup.found, worksheet)
               /\ startup' = [startup EXCEPT
                                !.done = TRUE,
                                !.header_appends = IF startup.found THEN 0 ELSE 1]
    /\ replies' = <<>>
    /\ locals' = NoLocals
    /\ UNCHANGED <<clock, queries, user_data, web>>

(***************************************************************************)
(* The users of the chat.                                                  *)
(***************************************************************************)
Users ==
    {[id |-> 1001, username |-> <<"a", "l", "i", "c", "e">>],
     [id |-> 1002, username |-> <<>>]}

\* update.effective_user.username or str(update.effective_user.id)
UserIdOf(user) == IF user.username # <<>> THEN user.username ELSE Pad(user.id, 1)

(***************************************************************************)
(* The logging handlers.                                                   *)
(***************************************************************************)
\* A variant that puts the new row right under the header.
log_activity_newest_first(user, activity_type, value, append_ok) ==
    LET row == <<strftime(clock), activity_type, value, UserIdOf(user)>>
    IN  /\ Len(worksheet) < 1 + MaxRows
        /\ IF append_ok
           THEN /\ worksheet' = <<worksheet[1], row>> \o Tail(worksheet)
                /\ replies' = <<ReplyText("Logged")>>
           ELSE /\ worksheet' = worksheet
                /\ replies' = <<ReplyText("Failed to log activity")>>
        /\ locals' = NoLocals
        /\ UNCHANGED <<clock, queries, startup, web>>

\* _log_activity: append_row either succeeds or raises.
log_activity(user, activity_type, value, append_ok) ==
    LET row == <<strftime(clock), activity_type, value, UserIdOf(user)>>
    IN  /\ Len(worksheet) < 1 + MaxRows
        /\ IF append_ok
           THEN /\ worksheet' = Append(worksheet, row)
                /\ replies' = <<ReplyText("Logged")>>
           ELSE /\ worksheet' = worksheet
                /\ replies' = <<ReplyText("Failed to log activity")>>
        /\ locals' = NoLocals
        /\ UNCHANGED <<clock, queries, startup, web>>

\* The arguments of /feed and /medication the model draws.
FeedArgs == {<<>>, <<<<"1", "5">>>>, <<<<"a", "b", "c">>>>}
MedicationArgs == {<<>>, <<<<"T", "y", "l", "e", "n", "o", "l">>>>}

\* " ".join(args)
RECURSIVE JoinSpace(_)
JoinSpace(args) ==
    IF args = <<>> THEN <<>>
    ELSE IF Len(args) = 1 THEN args[1]
    ELSE args[1] \o <<" ">> \o JoinSpace(Tail(args))

feed ==
    \E user \in Users, args \in FeedArgs, append_ok \in BOOLEAN :
        /\ UNCHANGED user_data
        /\ IF args = <<>> \/ ~IsDigitStr(args[1])
           THEN /\ replies' = <<ReplyText("Please specify feed duration")>>
                /\ locals' = NoLocals
                /\ UNCHANGED <<worksheet, clock, queries, startup, web>>
           ELSE log_activity(user, T_Feed, args[1] \o T_space_mins, append_ok)

poop ==
    \E user \in Users, append_ok \in BOOLEAN :
        /\ UNCHANGED user_data
        /\ log_activity(user, T_Poop, T_NA, append_ok)

pee ==
    \E user \in Users, append_ok \in BOOLEAN :
        /\ UNCHANGED user_data
        /\ log_activity(user, T_Pee, T_NA, append_ok)

medication ==
    \E user \in Users, args \in MedicationArgs, append_ok \in BOOLEAN :
        /\ UNCHANGED user_data
        /\ log_activity(user, T_Medication,
                        IF args # <<>> THEN JoinSpace(args) ELSE T_Medication, append_ok)

vitamind ==
    \E user \in Users, append_ok \in BOOLEAN :
        /\ UNCHANGED user_data
        /\ log_activity(user, T_Medication, T_VitaminD, append_ok)

(***************************************************************************)
(* Text messages.  The keyboard handler is registered first and takes the  *)
(* texts its Regex filter matches; every other text that is not a command  *)
(* reaches handle_free_text_input.  user_data[id] is "absent" while        *)
(* context.user_data has no entry for the user, "feed" or "medication"     *)
(* while the entry holds 'awaiting_input_for', and "cleared" once that key *)
(* has been deleted from it.                                               *)
(***************************************************************************)
T_Summary == <<"S", "u", "m", "m", "a", "r", "y">>
T_ColdStart == <<"C", "o", "l", "d", " ", "S", "t", "a", "r", "t">>
T_Help == <<"H", "e", "l", "p">>

\* filters.Regex("^(Poop|Pee|Feed|Medication|Summary|Cold Start|Help|Vitamin D)$")
KeyboardTexts ==
    {T_Poop, T_Pee, T_Feed, T_Medication, T_Summary, T_ColdStart, T_Help, T_VitaminD}

\* The texts users type that are neither a button nor a command.
FreeTexts == {<<"0", "7">>, <<"a", "b", "c">>}

\* A handler that only answers.
OnlyReply(text) ==
    /\ replies' = text
    /\ locals' = NoLocals
    /\ UNCHANGED <<worksheet, clock, queries, startup, web>>

handle_keyboard_input ==
    \E user \in Users, text \in KeyboardTexts, append_ok \in BOOLEAN :
        IF text = T_Poop
        THEN /\ log_activity(user, T_Poop, T_NA, append_ok)
             /\ UNCHANGED user_data
        ELSE IF text = T_Pee
        THEN /\ log_activity(user, T_Pee, T_NA, append_ok)
             /\ UNCHANGED user_data
        ELSE IF text = T_Feed
        THEN /\ user_data' = [user_data EXCEPT ![user.id] = "feed"]
             /\ OnlyReply(<<ReplyText("Please type the feed duration")>>)
        ELSE IF text = T_Medication
        THEN /\ user_data' = [user_data EXCEPT ![user.id] = "medication"]
             /\ OnlyReply(<<ReplyText("Please type the medication name")>>)
        ELSE IF text = T_VitaminD
        THEN /\ log_activity(user, T_Medication, T_VitaminD, append_ok)
             /\ UNCHANGED user_data
        ELSE IF text = T_ColdStart
        THEN /\ OnlyReply(<<ReplyText("Bot is awake and ready")>>)
             /\ UNCHANGED user_data
        ELSE IF text = T_Help
        THEN /\ OnlyReply(<<ReplyText("welcome_message")>>)
             /\ UNCHANGED user_data
        ELSE \* "Summary": no branch of the handler tests for it
             /\ OnlyReply(<<>>)
             /\ UNCHANGED user_data

\* A variant that logs whatever is typed as the feed duration.
handle_free_text_input_unchecked(user, text, append_ok) ==
    IF user_data[user.id] = "feed"
    THEN /\ log_activity(user, T_Feed, text \o T_space_mins, append_ok)
         /\ user_data' = [user_data EXCEPT ![user.id] = "cleared"]
    ELSE IF user_data[user.id] = "medication"
    THEN /\ log_activity(user, T_Medication, text, append_ok)
         /\ user_data' = [user_data EXCEPT ![user.id] = "cleared"]
    ELSE /\ OnlyReply(<<ReplyText("I'm not sure what that means")>>)
         /\ UNCHANGED user_data

\* A variant that keeps awaiting the feed duration after an invalid one.
handle_free_text_input_asking_again(user, text, append_ok) ==
    IF user_data[user.id] = "feed"
    THEN IF IsDigitStr(text)
         THEN /\ log_activity(user, T_Feed, text \o T_space_mins, append_ok)
              /\ user_data' = [user_data EXCEPT ![user.id] = "cleared"]
         ELSE /\ OnlyReply(<<ReplyText("Invalid input: feed duration")>>)
              /\ UNCHANGED user_data
    ELSE IF user_data[user.id] = "medication"
    THEN IF text # <<>>
         THEN /\ log_activity(user, T_Medication, text, append_ok)
              /\ user_data' = [user_data EXCEPT ![user.id] = "cleared"]
         ELSE /\ OnlyReply(<<ReplyText("Invalid input: medication name")>>)
              /\ user_data' = [user_data EXCEPT ![user.id] = "cleared"]
    ELSE /\ OnlyReply(<<ReplyText("I'm not sure what that means")>>)
         /\ UNCHANGED user_data

\* handle_free_text_input for the message text of user.
handle_free_text_input(user, text, append_ok) ==
    IF user_data[user.id] = "feed"
    THEN IF IsDigitStr(text)
         THEN /\ log_activity(user, T_Feed, text \o T_space_mins, append_ok)
              /\ user_data' = [user_data EXCEPT ![user.id] = "cleared"]
         ELSE /\ OnlyReply(<<ReplyText("Invalid input: feed duration")>>)
              /\ user_data' = [user_data EXCEPT ![user.id] = "cleared"]
    ELSE IF user_data[user.id] = "medication"
    THEN IF text # <<>>
         THEN /\ log_activity(user, T_Medication, text, append_ok)
              /\ user_data' = [user_data EXCEPT ![user.id] = "cleared"]
         ELSE /\ OnlyReply(<<ReplyText("Invalid input: medication name")>>)
              /\ user_data' = [user_data EXCEPT ![user.id] = "cleared"]
    ELSE /\ OnlyReply(<<ReplyText("I'm not sure what that means")>>)
         /\ UNCHANGED user_data

free_text ==
    \E user \in Users, text \in FreeTexts, append_ok \in BOOLEAN :
        handle_free_text_input(user, text, append_ok)

(***************************************************************************)
(* summary().                                                              *)
(***************************************************************************)
\* The arguments of /summary the model draws ("" stands for no argument).
SummaryArgs == {"", "today", "TODAY", "yesterday", "7days", "1month", "3month", "week"}

\* What summary() sends after reply_html(response_message): the chart of
\* graph_data, when there is one; an exception of the chart reaches the
\* handler's "except Exception".
ChartReplies(arg, chart) ==
    IF chart.exc # "none" THEN <<ReplyText("Error generating summary")>>
    ELSE IF chart.buf = "None" THEN <<>>
    ELSE <<ReplyPhoto(GraphPeriod(arg))>>

\* The replies once the text blocks are formatted: a TypeError of
\* format_summary leaves the try before anything is sent.
RepliesOfBlocks(arg, blocks, graph_data, all_records) ==
    IF \E i \in DOMAIN blocks : blocks[i].exc # "none"
    THEN <<ReplyText("Error generating summary")>>
    ELSE IF graph_data = <<>> THEN <<ReplyHtml(blocks)>>
    ELSE <<ReplyHtml(blocks)>>
         \o ChartReplies(arg, generate_activity_bar_chart(
                                  [i \in DOMAIN graph_data |-> all_records[graph_data[i]]]))

\* The replies of summary() once the loop has ended in the locals final.
SummaryBlocks(calls, final) ==
    [i \in DOMAIN calls |->
        format_summary(calls[i].title, final.sums[calls[i].b],
                       DateInfo(calls[i].dated # "", clock), calls[i].kw)]

SummaryReplies(arg, all_records, final) ==
    RepliesOfBlocks(arg, SummaryBlocks(SummaryCalls(arg), final),
                    GraphData(arg, final), all_records)

\* A variant whose dictionaries outlive the call: each run adds to the counters
\* the run before it left.
SummaryOf_keeping_counters(all_records, today_ist, steps) ==
    \E word \in SummaryArgs :
        /\ locals' = [ran |-> TRUE, fetched |-> TRUE, arg |-> Lower(word),
                      all_records |-> all_records, today_ist |-> today_ist,
                      steps |-> steps,
                      final |-> IF steps = <<>> THEN locals.final
                                ELSE [steps[Len(steps)] EXCEPT
                                        !.sums = [b \in Buckets |->
                                                    [f \in DOMAIN ZeroSummary |->
                                                        locals.final.sums[b][f] + @[b][f]]]]]
        /\ replies' = SummaryReplies(Lower(word), all_records, locals'.final)

\* summary() from the fetched records on.
SummaryOf(all_records, today_ist, steps) ==
    \E word \in SummaryArgs :
        /\ locals' = [ran |-> TRUE, fetched |-> TRUE, arg |-> Lower(word),
                      all_records |-> all_records, today_ist |-> today_ist,
                      steps |-> steps,
                      final |-> IF steps = <<>> THEN InitialLocals ELSE steps[Len(steps)]]
        /\ replies' = SummaryReplies(Lower(word), all_records, locals'.final)

\* A variant that sends the title of the summary before it gives up on the fetch.
summary_title_before_failure ==
    /\ UNCHANGED <<worksheet, clock, queries, startup, user_data, web>>
    /\ \/ /\ replies' = <<ReplyHtml(<<>>), ReplyText("Error generating summary")>>
          /\ locals' = [NoLocals EXCEPT !.ran = TRUE]
       \/ SummaryOf(get_all_records(worksheet),
                    ToOrdinal(clock.y, clock.m, clock.d),
                    Loop(get_all_records(worksheet),
                         ToOrdinal(clock.y, clock.m, clock.d),
                         Len(worksheet) - 1))

summary ==
    /\ UNCHANGED <<worksheet, clock, queries, startup, user_data, web>>
    /\ \/ \* self.worksheet.get_all_records() raises
          /\ replies' = <<ReplyText("Error generating summary")>>
          /\ locals' = [NoLocals EXCEPT !.ran = TRUE]
       \/ SummaryOf(get_all_records(worksheet),
                    ToOrdinal(clock.y, clock.m, clock.d),
                    Loop(get_all_records(worksheet),
                         ToOrdinal(clock.y, clock.m, clock.d),
                         Len(worksheet) - 1))

(***************************************************************************)
(* summary() calls that run side by side.  Each call is cut at its         *)
(* statements: the fetch of the records and of the date, one iteration of  *)
(* the loop, and the replies; the steps of different calls, and appends to *)
(* the sheet, interleave in any order.                                     *)
(***************************************************************************)
\* A variant whose loop reads the sheet afresh at every iteration.
QueryRecords_live(q) == get_all_records(worksheet)

\* all_records of the call q: what "for record in all_records" iterates.
QueryRecords(q) == queries[q].all_records

\* all_records = self.worksheet.get_all_records(), today_ist and the empty
\* dictionaries; or get_all_records raises and the call ends with the message.
query_fetch(q) ==
    /\ queries[q].pc \in {"idle", "done"}
    /\ \/ /\ queries' = [queries EXCEPT ![q] =
                            [pc |-> "loop",
                             all_records |-> get_all_records(worksheet),
                             today_ist |-> ToOrdinal(clock.y, clock.m, clock.d),
                             n |-> 0, st |-> InitialLocals]]
          /\ replies' = <<>>
       \/ /\ queries' = [queries EXCEPT ![q] = IdleQuery]
          /\ replies' = <<ReplyText("Error generating summary")>>
    /\ locals' = NoLocals
    /\ UNCHANGED <<worksheet, clock, startup, user_data, web>>

\* One iteration of the loop of the call q.
query_iterate(q) ==
    /\ queries[q].pc = "loop"
    /\ queries[q].n < Len(QueryRecords(q))
    /\ queries' = [queries EXCEPT
                     ![q].st = ProcessRecord(@, queries[q].n + 1,
                                             QueryRecords(q)[queries[q].n + 1],
                                             queries[q].today_ist),
                     ![q].n = @ + 1]
    /\ replies' = <<>>
    /\ locals' = NoLocals
    /\ UNCHANGED <<worksheet, clock, startup, user_data, web>>

\* The loop of the call q has ended: the text, and the chart if there is one.
query_reply(q) ==
    /\ queries[q].pc = "loop"
    /\ queries[q].n = Len(QueryRecords(q))
    /\ \E word \in SummaryArgs :
          replies' = SummaryReplies(Lower(word), queries[q].all_records, queries[q].st)
    /\ queries' = [queries EXCEPT ![q].pc = "done"]
    /\ locals' = NoLocals
    /\ UNCHANGED <<worksheet, clock, startup, user_data, web>>

(***************************************************************************)
(* The environment: the clock, and rows typed into the sheet by hand.      *)
(***************************************************************************)
NextDay(now) ==
    IF now.d < DaysInMonth(now.y, now.m) THEN [now EXCEPT !.d = @ + 1]
    ELSE IF now.m < 12 THEN [now EXCEPT !.m = @ + 1, !.d = 1]
    ELSE [now EXCEPT !.y = @ + 1, !.m = 1, !.d = 1]

Tick ==
    /\ ToOrdinal(clock.y, clock.m, clock.d)
         < ToOrdinal(StartClock.y, StartClock.m, StartClock.d) + MaxTicks
    /\ clock' = NextDay(clock)
    /\ replies' = <<>>
    /\ locals' = NoLocals
    /\ UNCHANGED <<worksheet, queries, startup, user_data, web>>

\* Rows a person types into the sheet.  ManualRows: every date of WindowDates
\* (1, 0, 6, 29 and 89 days before the clock's first day, and a day 420 days
\* after it) with every kind of RecordKinds, and a row stamped without seconds.
WindowDates ==
    {<<"2", "0", "2", "4", "-", "0", "1", "-", "0", "7", " ", "0", "8", ":", "3", "0", ":", "0", "5">>,
     <<"2", "0", "2", "4", "-", "0", "1", "-", "0", "6", " ", "0", "8", ":", "3", "0", ":", "0", "5">>,
     <<"2", "0", "2", "3", "-", "1", "2", "-", "3", "1", " ", "0", "8", ":", "3", "0", ":", "0", "5">>,
     <<"2", "0", "2", "3", "-", "1", "2", "-", "0", "8", " ", "0", "8", ":", "3", "0", ":", "0", "5">>,
     <<"2", "0", "2", "3", "-", "1", "0", "-", "0", "9", " ", "0", "8", ":", "3", "0", ":", "0", "5">>,
     <<"2", "0", "2", "5", "-", "0", "3", "-", "0", "1", " ", "0", "8", ":", "3", "0", ":", "0", "5">>}

RecordKinds ==
    {<<T_Pee, T_NA>>, <<T_Poop, T_NA>>,
     <<T_Feed, <<"1", "5", " ", "m", "i", "n", "s">>>>,
     <<T_Feed, <<"f", "i", "f", "t", "e", "e", "n", " ", "m", "i", "n", "s">>>>,
     <<T_Feed, <<"1", "5">>>>,
     <<T_Medication, T_VitaminD>>,
     <<T_Medication, <<"T", "y", "l", "e", "n", "o", "l">>>>,
     <<<<"N", "a", "p">>, T_NA>>}

TypedUser == <<"a", "l", "i", "c", "e">>

WithoutSeconds == <<"2", "0", "2", "4", "-", "0", "1", "-", "0", "6", " ", "0", "8", ":", "3", "0">>

ManualRows ==
    {<<ts, k[1], k[2], TypedUser>> : ts \in WindowDates, k \in RecordKinds}
    \cup {<<WithoutSeconds, T_Pee, T_NA, TypedUser>>}

\* LogRows: the three rows of the end-to-end scenario and rows whose Timestamp
\* cell is no timestamp.
MalformedTimestamps ==
    {<<"n", "o", "t", "-", "a", "-", "d", "a", "t", "e">>,
     <<"2", "0", "2", "4", "-", "0", "1", "-", "0", "6">>,
     <<"2", "0", "2", "4", "0", "1", "0", "6">>,
     <<>>}

EndToEndLog ==
    <<<<<<"2", "0", "2", "4", "-", "0", "1", "-", "0", "1", " ", "0", "8", ":", "0", "0", ":", "0", "0">>, T_Feed, <<"1", "5", " ", "m", "i", "n", "s">>, TypedUser>>,
      <<<<"2", "0", "2", "4", "-", "0", "1", "-", "0", "1", " ", "0", "9", ":", "0", "0", ":", "0", "0">>, T_Poop, T_NA, TypedUser>>,
      <<<<"2", "0", "2", "4", "-", "0", "1", "-", "0", "7", " ", "1", "0", ":", "0", "0", ":", "0", "0">>, T_Medication, T_VitaminD, TypedUser>>>>

LogRows ==
    {EndToEndLog[i] : i \in 1..Len(EndToEndLog)}
    \cup {<<ts, T_Pee, T_NA, TypedUser>> : ts \in MalformedTimestamps}

sheet_edit(rows, max_rows) ==
    \E row \in rows :
        /\ Len(worksheet) < 1 + max_rows
        /\ worksheet' = Append(worksheet, row)
        /\ replies' = <<>>
        /\ locals' = NoLocals
        /\ UNCHANGED <<clock, queries, startup, user_data, web>>

(***************************************************************************)
(* Specifications.  Spec: the handlers of the bot and the environment;     *)
(* SpecBot: the handlers alone, on a sheet nobody else writes to.          *)
(* SpecRecords and SpecLog: the aggregation of summary() over sheets typed *)
(* by hand, one drawing single rows of every date and kind, the other      *)
(* longer logs of fewer rows.  SpecConcurrent: summary() calls that run    *)
(* side by side while rows are appended.                                   *)
(* SpecBootstrap: the construction of the bot on the spreadsheets it may   *)
(* find.                                                                   *)
(***************************************************************************)
Next ==
    \/ sheet_edit(LogRows, MaxRows)
    \/ feed
    \/ poop
    \/ pee
    \/ medication
    \/ vitamind
    \/ summary
    \/ Tick

Spec == Init /\ [][Next]_vars

NextBot ==
    \/ feed
    \/ poop
    \/ pee
    \/ medication
    \/ vitamind
    \/ summary

SpecBot == Init /\ [][NextBot]_vars

NextRecords ==
    \/ sheet_edit(ManualRows, MaxRecordRows)
    \/ summary
    \/ Tick

SpecRecords == Init /\ [][NextRecords]_vars

\* The rows typed while summaries run: today's pee and today's feed of 15.
ConcurrentRows ==
    {<<strftime(StartClock), T_Pee, T_NA, TypedUser>>,
     <<strftime(StartClock), T_Feed, <<"1", "5">>, TypedUser>>}

NextConcurrent ==
    \/ sheet_edit(ConcurrentRows, MaxConcurrentRows)
    \/ pee
    \/ \E q \in Queries : query_fetch(q)
    \/ \E q \in Queries : query_iterate(q)
    \/ \E q \in Queries : query_reply(q)

SpecConcurrent == Init /\ [][NextConcurrent]_vars

\* The spreadsheet the bot is constructed on: without the sheet, with an
\* empty sheet, or with a sheet that holds the header and a log.
BootLogs == UNION {[1..n -> LogRows] : n \in 0..MaxBootRows}

InitBootstrap ==
    /\ clock = StartClock
    /\ replies = <<>>
    /\ locals = NoLocals
    /\ queries = [q \in Queries |-> IdleQuery]
    /\ user_data = NoUserData
    /\ telegram_app_instance = "None"
    /\ response = NoResponse
    /\ \/ /\ startup = [done |-> FALSE, found |-> FALSE, header_appends |-> 0]
          /\ worksheet = <<>>
       \/ /\ startup = [done |-> FALSE, found |-> TRUE, header_appends |-> 0]
          /\ worksheet \in {<<>>} \cup {<<headers>> \o rows : rows \in BootLogs}

NextBootstrap == get_or_create_worksheet

SpecBootstrap == InitBootstrap /\ [][NextBootstrap]_vars

NextLog ==
    \/ sheet_edit(LogRows, MaxLogRows)
    \/ summary
    \/ Tick

SpecLog == Init /\ [][NextLog]_vars

(***************************************************************************)
(* Vocabulary of the properties.  The age of a row is taken from a table   *)
(* of the dates the rows carry, not from the program's parser.             *)
(***************************************************************************)
\* The Timestamp cell of the k-th data row as typed, and the record read from it.
RawTimestamp(k) == worksheet[k + 1][1]
ActivityOf(k) == locals.all_records[k].vals[2]
DetailsOf(k) == locals.all_records[k].vals[3]
NumRecords == Len(locals.all_records)

\* Days from the date written in a timestamp to the clock's first day.
AgeAtStart(ts) ==
    CASE ts = <<"2", "0", "2", "4", "-", "0", "1", "-", "0", "7", " ", "0", "8", ":", "3", "0", ":", "0", "5">> -> 0 - 1
      [] ts = <<"2", "0", "2", "4", "-", "0", "1", "-", "0", "7", " ", "1", "0", ":", "0", "0", ":", "0", "0">> -> 0 - 1
      [] ts = <<"2", "0", "2", "4", "-", "0", "1", "-", "0", "6", " ", "0", "8", ":", "3", "0", ":", "0", "5">> -> 0
      [] ts = <<"2", "0", "2", "4", "-", "0", "1", "-", "0", "6", " ", "0", "8", ":", "3", "0">> -> 0
      [] ts = <<"2", "0", "2", "4", "-", "0", "1", "-", "0", "1", " ", "0", "8", ":", "0", "0", ":", "0", "0">> -> 5
      [] ts = <<"2", "0", "2", "4", "-", "0", "1", "-", "0", "1", " ", "0", "9", ":", "0", "0", ":", "0", "0">> -> 5
      [] ts = <<"2", "0", "2", "3", "-", "1", "2", "-", "3", "1", " ", "0", "8", ":", "3", "0", ":", "0", "5">> -> 6
      [] ts = <<"2", "0", "2", "3", "-", "1", "2", "-", "0", "8", " ", "0", "8", ":", "3", "0", ":", "0", "5">> -> 29
      [] ts = <<"2", "0", "2", "3", "-", "1", "0", "-", "0", "9", " ", "0", "8", ":", "3", "0", ":", "0", "5">> -> 89
      [] ts = <<"2", "0", "2", "5", "-", "0", "3", "-", "0", "1", " ", "0", "8", ":", "3", "0", ":", "0", "5">> -> 0 - 420

\* The rows whose timestamp has one of the two accepted formats.
WellFormed(k) == RawTimestamp(k) \notin MalformedTimestamps

\* now_date - record_date in days (the clock stays within January 2024).
Age(k) == AgeAtStart(RawTimestamp(k)) + (clock.d - StartClock.d)

\* The window classifier of the specification.
BelongsTo(b, age) ==
    CASE b = "today"        -> age = 0
      [] b = "yesterday"    -> age = 1
      [] b = "last_7_days"  -> age < 7
      [] b = "last_30_days" -> age < 30
      [] b = "last_90_days" -> age < 90

\* The rollups before and after the iteration of the k-th record.
SumsBefore(k) == IF k = 1 THEN InitialLocals.sums ELSE locals.steps[k - 1].sums
SumsAfter(k) == locals.steps[k].sums

\* The rollups of a sheet from which the rows with a malformed timestamp are removed.
WellFormedRows == SelectSeq(Tail(worksheet), LAMBDA row : row[1] \notin MalformedTimestamps)

WellFormedSums ==
    IF WellFormedRows = <<>> THEN InitialLocals.sums
    ELSE Loop(get_all_records(<<headers>> \o WellFormedRows), locals.today_ist,
              Len(WellFormedRows))[Len(WellFormedRows)].sums

(***************************************************************************)
(* C1.  A row whose timestamp matches neither format, at any position of   *)
(* the log: the loop still runs over every record, the row is skipped on   *)
(* an exception and changes no counter of any rollup, and the final        *)
(* rollups are those of the log without the malformed rows.                *)
(***************************************************************************)
C1_MalformedRowSkipped ==
    locals.fetched =>
        /\ Len(locals.steps) = NumRecords
        /\ \A k \in 1..NumRecords :
              ~WellFormed(k) =>
                 /\ SumsAfter(k) = SumsBefore(k)
                 /\ locals.steps[k].applied = {}
                 /\ locals.steps[k].exc \in {"ValueError", "TypeError"}
        /\ locals.final.sums = WellFormedSums

\* A malformed row between two counted rows.
C1_Witness ==
    /\ locals.fetched
    /\ NumRecords = 3
    /\ WellFormed(1) /\ ~WellFormed(2) /\ WellFormed(3)
    /\ locals.steps[1].applied # {} /\ locals.steps[3].applied # {}
    /\ locals.final.sums["last_7_days"].feed_count = 1
    /\ locals.final.sums["last_7_days"].poop = 1

(***************************************************************************)
(* C2.  A Pee record with a valid timestamp adds exactly 1 to pee of each  *)
(* rollup its date falls into and changes nothing else of that rollup; a   *)
(* rollup its date does not fall into is unchanged.                        *)
(***************************************************************************)
C2_PeeCountedOncePerBucket ==
    locals.fetched =>
        \A k \in 1..NumRecords :
            (WellFormed(k) /\ ActivityOf(k) = StrV(T_Pee)) =>
                \A b \in Buckets :
                    SumsAfter(k)[b] =
                        IF BelongsTo(b, Age(k))
                        THEN [SumsBefore(k)[b] EXCEPT !.pee = @ + 1]
                        ELSE SumsBefore(k)[b]

\* A Pee record 29 days old: counted for 30 and 90 days only.
C2_Witness ==
    /\ locals.fetched
    /\ \E k \in 1..NumRecords :
          /\ ActivityOf(k) = StrV(T_Pee) /\ WellFormed(k) /\ Age(k) = 29
          /\ SumsAfter(k)["last_30_days"].pee = SumsBefore(k)["last_30_days"].pee + 1
          /\ SumsAfter(k)["last_90_days"].pee = SumsBefore(k)["last_90_days"].pee + 1
          /\ SumsAfter(k)["last_7_days"].pee = SumsBefore(k)["last_7_days"].pee

(***************************************************************************)
(* C3.  A Feed record "15 mins" adds 1 to feed_count and 15 to             *)
(* feed_total_mins of every rollup it belongs to; a Feed record            *)
(* "fifteen mins" adds 1 to feed_count and nothing to feed_total_mins, and *)
(* is not skipped.                                                         *)
(***************************************************************************)
FifteenMins == <<"1", "5", " ", "m", "i", "n", "s">>
FifteenInWords == <<"f", "i", "f", "t", "e", "e", "n", " ", "m", "i", "n", "s">>

C3_FeedMinutes ==
    locals.fetched =>
        \A k \in 1..NumRecords :
            (WellFormed(k) /\ ActivityOf(k) = StrV(T_Feed)
                /\ DetailsOf(k) \in {StrV(FifteenMins), StrV(FifteenInWords)}) =>
                /\ locals.steps[k].exc = "none"
                /\ \A b \in Buckets :
                      SumsAfter(k)[b] =
                          IF BelongsTo(b, Age(k))
                          THEN [SumsBefore(k)[b] EXCEPT
                                  !.feed_count = @ + 1,
                                  !.feed_total_mins =
                                      @ + IF DetailsOf(k) = StrV(FifteenMins) THEN 15 ELSE 0]
                          ELSE SumsBefore(k)[b]

\* Today's feed in words: counted everywhere, no minutes.
C3_Witness ==
    /\ locals.fetched
    /\ \E k \in 1..NumRecords :
          /\ ActivityOf(k) = StrV(T_Feed) /\ DetailsOf(k) = StrV(FifteenInWords)
          /\ Age(k) = 0
          /\ SumsAfter(k)["today"].feed_count = 1
          /\ SumsAfter(k)["today"].feed_total_mins = 0
          /\ SumsAfter(k)["last_90_days"].feed_count = 1

\* The dictionaries update_summary_dict was called on for the k-th record.
AppliedTo(k) == locals.steps[k].applied

RollingWindows == {"last_7_days", "last_30_days", "last_90_days"}

\* A Feed row whose Value/Details cell holds the number 15, of the given age,
\* after which update_summary_dict has been called on the dictionaries of set.
NumericFeed(age, set) ==
    /\ locals.fetched
    /\ \E k \in 1..NumRecords :
          /\ WellFormed(k) /\ Age(k) = age
          /\ ActivityOf(k) = StrV(T_Feed) /\ DetailsOf(k) = IntV(15)
          /\ locals.steps[k].exc = "TypeError"
          /\ AppliedTo(k) = set

(***************************************************************************)
(* C4.  A Medication record adds 1 to medications of every rollup it       *)
(* belongs to, and when its details are "Vitamin D" it adds 1 to vitamin_d *)
(* of that rollup as well.                                                 *)
(***************************************************************************)
C4_MedicationAndVitaminD ==
    locals.fetched =>
        \A k \in 1..NumRecords :
            (WellFormed(k) /\ ActivityOf(k) = StrV(T_Medication)) =>
                \A b \in Buckets :
                    BelongsTo(b, Age(k)) =>
                        /\ SumsAfter(k)[b].medications = SumsBefore(k)[b].medications + 1
                        /\ DetailsOf(k) = StrV(T_VitaminD) =>
                              SumsAfter(k)[b].vitamin_d = SumsBefore(k)[b].vitamin_d + 1

\* Today's "Vitamin D" medication: counted as a medication, vitamin_d left at 0.
C4_VitaminDNotCounted ==
    /\ locals.fetched
    /\ \E k \in 1..NumRecords :
          /\ WellFormed(k) /\ Age(k) = 0
          /\ ActivityOf(k) = StrV(T_Medication) /\ DetailsOf(k) = StrV(T_VitaminD)
          /\ SumsAfter(k)["today"].medications = 1
          /\ SumsAfter(k)["today"].vitamin_d = 0

(***************************************************************************)
(* C5.  The log of a 15-minute feed and a poop on 2024-01-01 and of a      *)
(* "Vitamin D" medication on 2024-01-07, summarised on 2024-01-07: Today   *)
(* has 1 medication and 1 vitamin D and nothing else; Last7Days has 1 feed *)
(* of 15 minutes, 1 poop, no pee, 1 medication and 1 vitamin D.            *)
(***************************************************************************)
C5_EndToEnd ==
    (/\ locals.fetched
     /\ Tail(worksheet) = EndToEndLog
     /\ clock.y = 2024 /\ clock.m = 1 /\ clock.d = 7) =>
        /\ locals.final.sums["today"] =
              [pee |-> 0, poop |-> 0, feed_count |-> 0, feed_total_mins |-> 0,
               medications |-> 1, vitamin_d |-> 1]
        /\ locals.final.sums["last_7_days"] =
              [pee |-> 0, poop |-> 1, feed_count |-> 1, feed_total_mins |-> 15,
               medications |-> 1, vitamin_d |-> 1]

\* The rollups the scenario ends in: as stated, but for vitamin_d.
C5_EndToEndRollups ==
    /\ locals.fetched
    /\ Tail(worksheet) = EndToEndLog
    /\ clock.y = 2024 /\ clock.m = 1 /\ clock.d = 7
    /\ locals.final.sums["today"] =
          [pee |-> 0, poop |-> 0, feed_count |-> 0, feed_total_mins |-> 0,
           medications |-> 1, vitamin_d |-> 0]
    /\ locals.final.sums["last_7_days"] =
          [pee |-> 0, poop |-> 1, feed_count |-> 1, feed_total_mins |-> 15,
           medications |-> 1, vitamin_d |-> 0]

(***************************************************************************)
(* C6.  A record dated 7 days before today is counted for the last 30 and  *)
(* the last 90 days and not for the last 7; a record dated 6 days before   *)
(* today is counted for all three.                                         *)
(***************************************************************************)
C6_SevenDayBoundary ==
    locals.fetched =>
        \A k \in 1..NumRecords :
            WellFormed(k) =>
                /\ Age(k) = 7 =>
                      AppliedTo(k) \cap RollingWindows = {"last_30_days", "last_90_days"}
                /\ Age(k) = 6 => AppliedTo(k) \cap RollingWindows = RollingWindows

\* The numeric feed 7 days old: counted for 30 days, never for 90.
C6_NumericFeedSevenDaysOld == NumericFeed(7, {"last_30_days"})

(***************************************************************************)
(* C7.  A record dated today is counted for Today and for every rolling    *)
(* window, and not for Yesterday.                                          *)
(***************************************************************************)
C7_DatedToday ==
    locals.fetched =>
        \A k \in 1..NumRecords :
            (WellFormed(k) /\ Age(k) = 0) => AppliedTo(k) = Buckets \ {"yesterday"}

\* Today's numeric feed: counted for Today, for no rolling window.
C7_NumericFeedToday == NumericFeed(0, {"today"})

(***************************************************************************)
(* C8.  A record with a valid timestamp is counted for the last 30 days    *)
(* exactly when it is less than 30 days old, and for the last 90 days      *)
(* exactly when it is less than 90 days old; so a record 30 days old is    *)
(* counted for 90 days and not for 30, and one 90 days old for no rollup.  *)
(***************************************************************************)
C8_ThirtyAndNinetyDays ==
    locals.fetched =>
        \A k \in 1..NumRecords :
            WellFormed(k) =>
                /\ "last_30_days" \in AppliedTo(k) <=> Age(k) < 30
                /\ "last_90_days" \in AppliedTo(k) <=> Age(k) < 90
                /\ Age(k) = 90 => AppliedTo(k) = {}

\* The numeric feed 29 days old: counted for 30 days, not for 90.
C8_NumericFeedTwentyNineDaysOld == NumericFeed(29, {"last_30_days"})

(***************************************************************************)
(* C9.  A record dated the day before today is counted for Yesterday and   *)
(* for every rolling window, and not for Today; a record of any other date *)
(* is not counted for Yesterday.                                           *)
(***************************************************************************)
C9_DatedYesterday ==
    locals.fetched =>
        \A k \in 1..NumRecords :
            WellFormed(k) =>
                /\ Age(k) = 1 => AppliedTo(k) = Buckets \ {"today"}
                /\ Age(k) # 1 => "yesterday" \notin AppliedTo(k)

\* Yesterday's numeric feed: counted for Yesterday, for no rolling window.
C9_NumericFeedYesterday == NumericFeed(1, {"yesterday"})

(***************************************************************************)
(* C10.  A record dated after today is counted for every rolling window,   *)
(* however far ahead it is, and neither for Today nor for Yesterday.       *)
(***************************************************************************)
C10_FutureDated ==
    locals.fetched =>
        \A k \in 1..NumRecords :
            (WellFormed(k) /\ Age(k) < 0) => AppliedTo(k) = RollingWindows

\* Tomorrow's numeric feed: counted for 7 days, not for 30 or 90.
C10_NumericFeedTomorrow == NumericFeed(0 - 1, {"last_7_days"})

(***************************************************************************)
(* C11.  A record with a valid timestamp whose activity is none of Poop,   *)
(* Pee, Feed and Medication changes no counter of any rollup, and its      *)
(* iteration ends without an exception: the loop goes on to the next       *)
(* record.                                                                 *)
(***************************************************************************)
KnownTypes == {StrV(T_Poop), StrV(T_Pee), StrV(T_Feed), StrV(T_Medication)}

C11_UnknownTypeIgnored ==
    locals.fetched =>
        /\ Len(locals.steps) = NumRecords
        /\ \A k \in 1..NumRecords :
              (WellFormed(k) /\ ActivityOf(k) \notin KnownTypes) =>
                  /\ SumsAfter(k) = SumsBefore(k)
                  /\ locals.steps[k].exc = "none"

\* Today's "Nap": passed to update_summary_dict for four rollups, none changed.
C11_Witness ==
    /\ locals.fetched
    /\ \E k \in 1..NumRecords :
          /\ WellFormed(k) /\ Age(k) = 0
          /\ ActivityOf(k) = StrV(<<"N", "a", "p">>)
          /\ AppliedTo(k) = Buckets \ {"yesterday"}
          /\ locals.steps[k].exc = "none"
          /\ SumsAfter(k) = InitialLocals.sums

(***************************************************************************)
(* Vocabulary of the replies.                                              *)
(***************************************************************************)
ErrorReply == ReplyText("Error generating summary")

HtmlReplies == {i \in DOMAIN replies : replies[i].kind = "html"}
PhotoReplies == {i \in DOMAIN replies : replies[i].kind = "photo"}
ErrorReplies == {i \in DOMAIN replies : replies[i] = ErrorReply}

\* The rollups the period argument selects, in the order they are reported.
SelectedBuckets(arg) ==
    CASE arg = "today"     -> <<"today">>
      [] arg = "yesterday" -> <<"yesterday">>
      [] arg = "7days"     -> <<"last_7_days">>
      [] arg = "1month"    -> <<"last_30_days">>
      [] arg = "3month"    -> <<"last_90_days">>
      [] OTHER             -> SummaryNames

\* The block of text shows the counters of the rollup.
Shows(block, rollup) ==
    /\ block.pee = rollup.pee
    /\ block.poop = rollup.poop
    /\ block.feed_count = rollup.feed_count
    /\ block.feed_total_mins = rollup.feed_total_mins
    /\ block.medications = rollup.medications

(***************************************************************************)
(* C12.  The summary reports the rollup of exactly one bucket when the     *)
(* argument is today, yesterday, 7days, 1month or 3month, and the rollups  *)
(* of all five buckets when there is no argument or an unrecognized one.   *)
(***************************************************************************)
C12_PeriodSelection ==
    locals.fetched =>
        \E i \in HtmlReplies :
            /\ Len(replies[i].blocks) = Len(SelectedBuckets(locals.arg))
            /\ \A j \in DOMAIN replies[i].blocks :
                  Shows(replies[i].blocks[j],
                        locals.final.sums[SelectedBuckets(locals.arg)[j]])

\* /summary 7days over a fetched log: the error message and nothing else.
C12_SevenDaysFails ==
    /\ locals.fetched
    /\ locals.arg = "7days"
    /\ replies = <<ErrorReply>>

(***************************************************************************)
(* C13.  A chart is sent only for 7days, 1month or 3month and only when    *)
(* records fed that window; for today, yesterday, no argument or an        *)
(* unrecognized one no chart is built or sent; of no records the chart     *)
(* builder returns None and no image is sent.                              *)
(***************************************************************************)
ChartPeriods == {"7days", "1month", "3month"}

\* The records that fed the window the argument selects.
WindowRecords ==
    [i \in DOMAIN GraphData(locals.arg, locals.final) |->
        locals.all_records[GraphData(locals.arg, locals.final)[i]]]

\* summary() reached the call of the chart builder: the text went out and
\* graph_data is not empty.
ChartBuilt == HtmlReplies # {} /\ WindowRecords # <<>>

C13_ChartOnlyForRollingWindows ==
    /\ generate_activity_bar_chart(<<>>).buf = "None"
    /\ locals.ran =>
          /\ (PhotoReplies # {} \/ ChartBuilt) =>
                (locals.arg \in ChartPeriods /\ WindowRecords # <<>>)
          /\ locals.arg \notin ChartPeriods => (PhotoReplies = {} /\ ~ChartBuilt)
          /\ WindowRecords = <<>> => PhotoReplies = {}

\* Today's summary over a log with a record of the last 7 days: text, no chart.
C13_Witness ==
    /\ locals.fetched
    /\ locals.arg = "today"
    /\ locals.final.records_7_days # <<>>
    /\ HtmlReplies # {}
    /\ PhotoReplies = {}

(***************************************************************************)
(* C14.  When get_all_records raises, summary() sends exactly one message, *)
(* the failure message: no summary text, partial or complete, and no       *)
(* chart.                                                                  *)
(***************************************************************************)
C14_FetchFailure ==
    (locals.ran /\ ~locals.fetched) =>
        /\ replies = <<ErrorReply>>
        /\ HtmlReplies = {}
        /\ PhotoReplies = {}

\* The fetch fails on a sheet that holds a record.
C14_Witness ==
    /\ locals.ran /\ ~locals.fetched
    /\ Len(worksheet) = 2
    /\ Len(replies) = 1
    /\ replies[1] = ErrorReply

(***************************************************************************)
(* C15.  When the chart of a 7days, 1month or 3month summary cannot be     *)
(* built, the summary text is still delivered and no failure message is    *)
(* sent: the response is the text alone.                                   *)
(***************************************************************************)
\* The chart of the records that fed the selected window raises.
ChartFails ==
    /\ locals.fetched
    /\ locals.arg \in ChartPeriods
    /\ WindowRecords # <<>>
    /\ generate_activity_bar_chart(WindowRecords).exc # "none"

C15_ChartFailureKeepsText ==
    ChartFails =>
        /\ HtmlReplies # {}
        /\ ErrorReplies = {}
        /\ PhotoReplies = {}

\* /summary 7days over today's "Nap", of which no bar can be drawn: the
\* failure message and no text.
C15_OnlyFailureMessage ==
    /\ ChartFails
    /\ locals.arg = "7days"
    /\ NumRecords = 1 /\ Age(1) = 0 /\ ActivityOf(1) = StrV(<<"N", "a", "p">>)
    /\ replies = <<ErrorReply>>

Sequential(all_records, today_ist, n) ==
    IF n = 0 THEN InitialLocals ELSE Loop(all_records, today_ist, n)[n]

C17_QueriesIndependent ==
    \A q \in Queries :
        queries[q].pc # "idle" =>
            /\ queries[q].n <= Len(queries[q].all_records)
            /\ queries[q].pc = "done" => queries[q].n = Len(queries[q].all_records)
            /\ Len(queries[q].all_records) <= Len(worksheet) - 1
            /\ queries[q].all_records =
                  SubSeq(get_all_records(worksheet), 1, Len(queries[q].all_records))
            /\ queries[q].st =
                  Sequential(queries[q].all_records, queries[q].today_ist, queries[q].n)

\* One call has answered from a snapshot of one row; a row was appended; the
\* other call, which fetched both rows, is in the middle of its loop.
C17_Witness ==
    /\ Len(worksheet) = 3
    /\ queries["q1"].pc = "done"
    /\ Len(queries["q1"].all_records) = 1
    /\ queries["q1"].st.sums["today"].pee = 1
    /\ queries["q2"].pc = "loop"
    /\ Len(queries["q2"].all_records) = 2
    /\ queries["q2"].n = 1

(***************************************************************************)
(* C18.  The log is append-only: a summary leaves the sheet as it is, and  *)
(* every other step leaves the rows that were there unchanged, in content  *)
(* and in order, at most adding rows below them.                           *)
(***************************************************************************)
C18_AppendOnly ==
    [][/\ Len(worksheet') >= Len(worksheet)
       /\ SubSeq(worksheet', 1, Len(worksheet)) = worksheet
       /\ locals'.ran => worksheet' = worksheet]_vars

\* A pee logged under a feed that was logged before: both rows are there.
C18_Witness ==
    /\ Len(worksheet) = 3
    /\ worksheet[1] = headers
    /\ worksheet[2][2] = T_Feed
    /\ worksheet[3][2] = T_Pee
    /\ replies = <<ReplyText("Logged")>>

(***************************************************************************)
(* C19.  A successful _log_activity appends exactly one row at the end of  *)
(* the log, [timestamp, activity type, value, user id], the timestamp      *)
(* being the clock's time as YYYY-MM-DD HH:MM:SS; when the append fails    *)
(* the user gets the failure message and no confirmation, and the log is   *)
(* as before.                                                              *)
(***************************************************************************)
\* The clock of the bot, which no step of SpecBot moves, as text.
ClockText == <<"2", "0", "2", "4", "-", "0", "1", "-", "0", "6", " ", "0", "8", ":", "3", "0", ":", "0", "5">>

\* The activity type and value each logging command passes on.
LoggedKinds ==
    {<<T_Feed, <<"1", "5", " ", "m", "i", "n", "s">>>>, <<T_Poop, T_NA>>, <<T_Pee, T_NA>>,
     <<T_Medication, T_Medication>>, <<T_Medication, <<"T", "y", "l", "e", "n", "o", "l">>>>,
     <<T_Medication, T_VitaminD>>}

UserIds == {<<"a", "l", "i", "c", "e">>, <<"1", "0", "0", "2">>}

Confirmed == \E i \in DOMAIN replies : replies[i] = ReplyText("Logged")
Refused == \E i \in DOMAIN replies : replies[i] = ReplyText("Failed to log activity")

C19_LogActivityRow ==
    [][/\ Confirmed' =>
             /\ Len(worksheet') = Len(worksheet) + 1
             /\ SubSeq(worksheet', 1, Len(worksheet)) = worksheet
             /\ Len(worksheet'[Len(worksheet')]) = 4
             /\ worksheet'[Len(worksheet')][1] = ClockText
             /\ <<worksheet'[Len(worksheet')][2], worksheet'[Len(worksheet')][3]>>
                   \in LoggedKinds
             /\ worksheet'[Len(worksheet')][4] \in UserIds
       /\ worksheet' # worksheet => Confirmed'
       /\ Refused' => (worksheet' = worksheet /\ ~Confirmed')]_vars

\* /feed 15 of the user without a username, confirmed.
C19_Witness ==
    /\ replies = <<ReplyText("Logged")>>
    /\ worksheet[Len(worksheet)] =
          <<ClockText, T_Feed, <<"1", "5", " ", "m", "i", "n", "s">>, <<"1", "0", "0", "2">>>>

\* An append that failed: the failure message, on a log that holds a row.
C19_WitnessRefused ==
    /\ replies = <<ReplyText("Failed to log activity")>>
    /\ Len(worksheet) = 2

(***************************************************************************)
(* C20.  After _get_or_create_worksheet, whether the sheet was missing,    *)
(* was there and empty, or was there with its header: the first row of the *)
(* sheet is the header row, the call has appended the header at most once, *)
(* and the sheet holds the header row once.                                *)
(***************************************************************************)
HeaderRows == {i \in DOMAIN worksheet : worksheet[i] = headers}

C20_HeaderOnceAfterBootstrap ==
    startup.done =>
        /\ Len(worksheet) >= 1
        /\ worksheet[1] = headers
        /\ startup.header_appends <= 1
        /\ Cardinality(HeaderRows) = 1

\* The sheet was missing: created, the header appended once.
C20_Witness ==
    /\ startup.done
    /\ ~startup.found
    /\ startup.header_appends = 1
    /\ worksheet = <<headers>>

(***************************************************************************)
(* Timestamps as text.  StampTexts: the two formats, zero-padded, at the   *)
(* first and last minute of a day; a text with one-digit fields; and texts *)
(* of other shapes.  SpecStamps: summary() over Pee rows stamped with them *)
(* on the clock's first day.                                               *)
(***************************************************************************)
MaxStampRows == 2

PaddedWithSeconds ==
    {<<"2", "0", "2", "4", "-", "0", "1", "-", "0", "6", " ", "0", "8", ":", "3", "0", ":", "0", "5">>,
     <<"2", "0", "2", "4", "-", "0", "1", "-", "0", "5", " ", "2", "3", ":", "5", "9", ":", "5", "9">>,
     <<"2", "0", "2", "3", "-", "1", "2", "-", "3", "1", " ", "0", "0", ":", "0", "0", ":", "0", "0">>}

PaddedWithoutSeconds ==
    {<<"2", "0", "2", "4", "-", "0", "1", "-", "0", "6", " ", "0", "8", ":", "3", "0">>,
     <<"2", "0", "2", "4", "-", "0", "1", "-", "0", "5", " ", "2", "3", ":", "5", "9">>,
     <<"2", "0", "2", "3", "-", "1", "2", "-", "3", "1", " ", "0", "0", ":", "0", "0">>}

OneDigitFields == <<"2", "0", "2", "4", "-", "1", "-", "6", " ", "8", ":", "3", "0">>

OtherShapes ==
    {<<"2", "0", "2", "4", "-", "0", "1", "-", "0", "6">>,
     <<"2", "0", "2", "4", "-", "0", "1", "-", "0", "6", "T", "0", "8", ":", "3", "0", ":", "0", "5">>,
     <<"2", "0", "2", "4", "-", "0", "1", "-", "0", "6", " ", "0", "8", ":", "3", "0", ":", "0", "5", "+", "0", "5", ":", "3", "0">>,
     <<>>}

StampTexts == PaddedWithSeconds \cup PaddedWithoutSeconds \cup {OneDigitFields} \cup OtherShapes

StampRows == {<<ts, T_Pee, T_NA, TypedUser>> : ts \in StampTexts}

NextStamps ==
    \/ sheet_edit(StampRows, MaxStampRows)
    \/ summary

SpecStamps == Init /\ [][NextStamps]_vars

\* "YYYY-MM-DD HH:MM" and "YYYY-MM-DD HH:MM:SS" read character by character.
DigitsAt(ts, positions) == \A i \in positions : IsDigit(ts[i])

ShapeWithoutSeconds(ts) ==
    /\ Len(ts) = 16
    /\ DigitsAt(ts, {1, 2, 3, 4, 6, 7, 9, 10, 12, 13, 15, 16})
    /\ ts[5] = "-" /\ ts[8] = "-" /\ ts[11] = " " /\ ts[14] = ":"

ShapeWithSeconds(ts) ==
    /\ Len(ts) = 19
    /\ ShapeWithoutSeconds(SubSeq(ts, 1, 16))
    /\ ts[17] = ":" /\ DigitsAt(ts, {18, 19})

\* Days from the calendar date written in a text of StampTexts to 2024-01-06.
StampAge(ts) ==
    CASE ts \in {<<"2", "0", "2", "4", "-", "0", "1", "-", "0", "6", " ", "0", "8", ":", "3", "0", ":", "0", "5">>,
                 <<"2", "0", "2", "4", "-", "0", "1", "-", "0", "6", " ", "0", "8", ":", "3", "0">>,
                 <<"2", "0", "2", "4", "-", "1", "-", "6", " ", "8", ":", "3", "0">>} -> 0
      [] ts \in {<<"2", "0", "2", "4", "-", "0", "1", "-", "0", "5", " ", "2", "3", ":", "5", "9", ":", "5", "9">>,
                 <<"2", "0", "2", "4", "-", "0", "1", "-", "0", "5", " ", "2", "3", ":", "5", "9">>} -> 1
      [] ts \in {<<"2", "0", "2", "3", "-", "1", "2", "-", "3", "1", " ", "0", "0", ":", "0", "0", ":", "0", "0">>,
                 <<"2", "0", "2", "3", "-", "1", "2", "-", "3", "1", " ", "0", "0", ":", "0", "0">>} -> 6

\* The rollups a record of the given age belongs to.
BucketsOfAge(age) == {b \in Buckets : BelongsTo(b, age)}

\* The k-th row was skipped as malformed: an exception, and no counter changed.
SkippedAsMalformed(k) ==
    /\ locals.steps[k].exc = "ValueError"
    /\ AppliedTo(k) = {}
    /\ SumsAfter(k) = SumsBefore(k)

\* The k-th row was counted as a record of the date written in it.
CountedOnDateWritten(k) ==
    /\ locals.steps[k].exc = "none"
    /\ AppliedTo(k) = BucketsOfAge(StampAge(RawTimestamp(k)))
    /\ parse_and_localize_timestamp(StrV(RawTimestamp(k))).date
          = locals.today_ist - StampAge(RawTimestamp(k))

(***************************************************************************)
(* C21.  As stated: a row stamped "YYYY-MM-DD HH:MM" falls into the same   *)
(* rollups as the row stamped "YYYY-MM-DD HH:MM:SS" of the same date, the  *)
(* record date is the calendar date written in the text, and a text of any *)
(* other shape is skipped as a malformed timestamp.                        *)
(***************************************************************************)
C21_ExactlyTwoShapes ==
    locals.fetched =>
        \A k \in 1..NumRecords :
            IF ShapeWithSeconds(RawTimestamp(k)) \/ ShapeWithoutSeconds(RawTimestamp(k))
            THEN CountedOnDateWritten(k)
            ELSE SkippedAsMalformed(k)

(***************************************************************************)
(* C21, amended.  The two formats are those of strptime, whose fields may  *)
(* be written without zero padding: such a text is counted on the date     *)
(* written in it as well.  Two rows of the same date, one with and one     *)
(* without seconds, fall into the same rollups; date-only, empty, "T"-     *)
(* separated and zone-suffixed texts are skipped as malformed.             *)
(***************************************************************************)
C21_TwoFormats ==
    locals.fetched =>
        /\ \A k \in 1..NumRecords :
              IF RawTimestamp(k) \in OtherShapes
              THEN SkippedAsMalformed(k)
              ELSE CountedOnDateWritten(k)
        /\ \A j, k \in 1..NumRecords :
              (/\ ShapeWithSeconds(RawTimestamp(j))
               /\ ShapeWithoutSeconds(RawTimestamp(k))
               /\ StampAge(RawTimestamp(j)) = StampAge(RawTimestamp(k))) =>
                  AppliedTo(j) = AppliedTo(k)

\* Yesterday's last second with seconds and last minute without, side by side.
C21_Witness ==
    /\ locals.fetched
    /\ NumRecords = 2
    /\ RawTimestamp(1) = <<"2", "0", "2", "4", "-", "0", "1", "-", "0", "5", " ", "2", "3", ":", "5", "9", ":", "5", "9">>
    /\ RawTimestamp(2) = <<"2", "0", "2", "4", "-", "0", "1", "-", "0", "5", " ", "2", "3", ":", "5", "9">>
    /\ AppliedTo(1) = {"yesterday", "last_7_days", "last_30_days", "last_90_days"}
    /\ AppliedTo(2) = AppliedTo(1)
    /\ locals.final.sums["yesterday"].pee = 2
    /\ locals.final.sums["today"].pee = 0

(***************************************************************************)
(* C22.  A Feed record adds 1 to feed_count of every rollup it belongs to  *)
(* whatever its details are, and adds k to feed_total_mins of each exactly *)
(* when the details contain "mins" and begin with the integer k: "15 mins" *)
(* adds 15, "fifteen mins" and "15" add nothing.                           *)
(***************************************************************************)
\* The minutes the details of a Feed record of RecordKinds stand for.
MinutesStated(details) == IF details = StrV(FifteenMins) THEN 15 ELSE 0

C22_FeedMinutesIff ==
    locals.fetched =>
        \A k \in 1..NumRecords :
            (WellFormed(k) /\ ActivityOf(k) = StrV(T_Feed)) =>
                \A b \in Buckets :
                    SumsAfter(k)[b] =
                        IF BelongsTo(b, Age(k))
                        THEN [SumsBefore(k)[b] EXCEPT
                                !.feed_count = @ + 1,
                                !.feed_total_mins = @ + MinutesStated(DetailsOf(k))]
                        ELSE SumsBefore(k)[b]

\* The feed "15" of 6 days ago: counted for the last 7 days and for no other
\* rollup it belongs to.
C22_NumericFeedCountedOnce ==
    /\ NumericFeed(6, {"last_7_days"})
    /\ locals.final.sums["last_7_days"].feed_count = 1
    /\ locals.final.sums["last_7_days"].feed_total_mins = 0
    /\ locals.final.sums["last_30_days"].feed_count = 0
    /\ locals.final.sums["last_90_days"].feed_count = 0

(***************************************************************************)
(* The chart builder on its own.  ChartRows: rows of today and of          *)
(* yesterday's last second, of a known type, of the "Vitamin D"            *)
(* medication, of a type the bot does not know and of the type             *)
(* "Vitamin D".  SpecChart: _generate_activity_bar_chart called on the     *)
(* records of the sheet; locals keeps its argument, the chart and the      *)
(* table activity_counts.                                                  *)
(***************************************************************************)
MaxChartRows == 2

ChartKinds ==
    {<<T_Pee, T_NA>>,
     <<T_Medication, T_VitaminD>>,
     <<T_Medication, <<"T", "y", "l", "e", "n", "o", "l">>>>,
     <<<<"N", "a", "p">>, T_NA>>,
     <<T_VitaminD, T_NA>>}

ChartDates ==
    {<<"2", "0", "2", "4", "-", "0", "1", "-", "0", "6", " ", "0", "8", ":", "3", "0", ":", "0", "5">>,
     <<"2", "0", "2", "4", "-", "0", "1", "-", "0", "5", " ", "2", "3", ":", "5", "9", ":", "5", "9">>}

ChartRows == {<<ts, k[1], k[2], TypedUser>> : ts \in ChartDates, k \in ChartKinds}

CountsOf(chart) == IF chart.cells = <<>> THEN <<>> ELSE activity_counts(chart.cells)

ChartLocals(records_for_period, chart) ==
    [ran |-> FALSE, fetched |-> FALSE, arg |-> "", all_records |-> records_for_period,
     today_ist |-> 0, steps |-> <<>>, final |-> InitialLocals,
     charted |-> TRUE, chart |-> chart, counts |-> CountsOf(chart)]

chart_call ==
    /\ locals' = ChartLocals(get_all_records(worksheet),
                             generate_activity_bar_chart(get_all_records(worksheet)))
    /\ replies' = <<>>
    /\ UNCHANGED <<worksheet, clock, queries, startup, user_data, web>>

NextChart ==
    \/ sheet_edit(ChartRows, MaxChartRows)
    \/ chart_call

SpecChart == Init /\ [][NextChart]_vars

\* The chart builder was called and returned a chart.
Charted == "charted" \in DOMAIN locals /\ locals.chart.exc = "none" /\ locals.chart.buf = "png"

\* The calendar date written in the k-th row, as date.toordinal() numbers it.
DateWritten(k) == ToOrdinal(2024, 1, 6) - StampAge(RawTimestamp(k))

\* The display category the k-th record is to be counted under.
DisplayCategory(k) ==
    IF ActivityOf(k) = StrV(T_Medication) /\ DetailsOf(k) = StrV(T_VitaminD)
    THEN StrV(T_VitaminD) ELSE ActivityOf(k)

DisplayCategories == {StrV(T_Poop), StrV(T_Pee), StrV(T_Feed), StrV(T_Medication), StrV(T_VitaminD)}

\* The number a cell of activity_counts holds (0 for a cell it does not have).
CountAt(d, c) == IF <<d, c>> \in DOMAIN locals.counts THEN locals.counts[<<d, c>>] ELSE 0

\* The sum of the five display categories on the date d.
CountOnDate(d) ==
    CountAt(d, StrV(T_Poop)) + CountAt(d, StrV(T_Pee)) + CountAt(d, StrV(T_Feed))
    + CountAt(d, StrV(T_Medication)) + CountAt(d, StrV(T_VitaminD))

\* Every record is counted in the cell of its date and display category, and
\* in no other.
OneCellPerRecord ==
    \A d \in {DateWritten(j) : j \in 1..NumRecords} :
        \A c \in DisplayCategories \cup {DisplayCategory(j) : j \in 1..NumRecords} :
            CountAt(d, c) =
                Cardinality({j \in 1..NumRecords :
                                DateWritten(j) = d /\ DisplayCategory(j) = c})

(***************************************************************************)
(* C23.  As stated: every record is counted in exactly one (date, display  *)
(* category) cell, a "Vitamin D" medication under Vitamin D and every      *)
(* other record under its own type, and on each date the five display      *)
(* categories sum to the number of records of the four known types.        *)
(***************************************************************************)
C23_ChartGrouping ==
    Charted =>
        /\ OneCellPerRecord
        /\ \A k \in 1..NumRecords :
              CountOnDate(DateWritten(k)) =
                  Cardinality({j \in 1..NumRecords :
                                  DateWritten(j) = DateWritten(k)
                                  /\ ActivityOf(j) \in KnownTypes})

(***************************************************************************)
(* C23, amended.  On each date the five display categories sum to the      *)
(* number of records whose type is one of the four known types or          *)
(* "Vitamin D": a record of type "Vitamin D" is counted under its own      *)
(* type, which is a display category.                                      *)
(***************************************************************************)
C23_ChartGroupingByDisplayCategory ==
    Charted =>
        /\ OneCellPerRecord
        /\ \A k \in 1..NumRecords :
              CountOnDate(DateWritten(k)) =
                  Cardinality({j \in 1..NumRecords :
                                  DateWritten(j) = DateWritten(k)
                                  /\ ActivityOf(j) \in KnownTypes \cup {StrV(T_VitaminD)}})

\* Today's "Vitamin D" medication and today's Tylenol: one under Vitamin D, one
\* under Medication.
C23_Witness ==
    /\ Charted
    /\ NumRecords = 2
    /\ DateWritten(1) = DateWritten(2)
    /\ ActivityOf(1) = StrV(T_Medication) /\ DetailsOf(1) = StrV(T_VitaminD)
    /\ ActivityOf(2) = StrV(T_Medication) /\ DetailsOf(2) # StrV(T_VitaminD)
    /\ CountAt(DateWritten(1), StrV(T_VitaminD)) = 1
    /\ CountAt(DateWritten(1), StrV(T_Medication)) = 1
    /\ CountOnDate(DateWritten(1)) = 2

(***************************************************************************)
(* C24.  After any run of the aggregation the rollups are nested: for each *)
(* of pee, poop, feed_count, feed_total_mins and medications, Today is at  *)
(* most Last7Days, Last7Days at most Last30Days, Last30Days at most        *)
(* Last90Days, Yesterday at most Last7Days, and no counter is negative.    *)
(***************************************************************************)
NestedCounters == {"pee", "poop", "feed_count", "feed_total_mins", "medications"}

C24_NestedRollups ==
    locals.fetched =>
        \A c \in NestedCounters :
            /\ locals.final.sums["today"][c] <= locals.final.sums["last_7_days"][c]
            /\ locals.final.sums["yesterday"][c] <= locals.final.sums["last_7_days"][c]
            /\ locals.final.sums["last_7_days"][c] <= locals.final.sums["last_30_days"][c]
            /\ locals.final.sums["last_30_days"][c] <= locals.final.sums["last_90_days"][c]
            /\ \A b \in Buckets : locals.final.sums[b][c] >= 0

\* Today's feed "15": one feed today, none in the last 7 days.
C24_TodayAboveSevenDays ==
    /\ NumericFeed(0, {"today"})
    /\ NumRecords = 1
    /\ locals.final.sums["today"].feed_count = 1
    /\ locals.final.sums["last_7_days"].feed_count = 0

(***************************************************************************)
(* C25.  The fan-out of a record is all-or-nothing: a record, also one on  *)
(* which the iteration ends in the skip handler, changes either every      *)
(* rollup its date belongs to or none of them.                             *)
(***************************************************************************)
\* The rollups the iteration of the k-th record changed.
ChangedBy(k) == {b \in Buckets : SumsAfter(k)[b] # SumsBefore(k)[b]}

C25_AllOrNothing ==
    locals.fetched =>
        \A k \in 1..NumRecords :
            WellFormed(k) => ChangedBy(k) \in {{}, BucketsOfAge(Age(k))}

\* Yesterday's feed "15": counted for Yesterday, dropped from the three rolling
\* windows it belongs to.
C25_CountedYesterdayOnly ==
    /\ locals.fetched
    /\ \E k \in 1..NumRecords :
          /\ WellFormed(k) /\ Age(k) = 1
          /\ ActivityOf(k) = StrV(T_Feed) /\ DetailsOf(k) = IntV(15)
          /\ locals.steps[k].exc = "TypeError"
          /\ ChangedBy(k) = {"yesterday"}
          /\ BucketsOfAge(Age(k)) = {"yesterday", "last_7_days", "last_30_days", "last_90_days"}

(***************************************************************************)
(* The chat.  SpecChat: the text messages of both users and /feed, on a    *)
(* sheet of at most MaxChatRows rows.  SpecRoundTrip: every logging        *)
(* command, the buttons and the free texts of one user, and /summary, all  *)
(* on the clock's first day.                                               *)
(***************************************************************************)
MaxChatRows == 1

NextChat ==
    \/ feed /\ Len(worksheet') <= 1 + MaxChatRows
    \/ handle_keyboard_input /\ Len(worksheet') <= 1 + MaxChatRows
    \/ free_text /\ Len(worksheet') <= 1 + MaxChatRows

SpecChat == Init /\ [][NextChat]_vars

\* The user with a username; every message of the round trip is theirs.
Alice == [id |-> 1001, username |-> <<"a", "l", "i", "c", "e">>]

FromAlice ==
    /\ \A i \in 2..Len(worksheet') : worksheet'[i][4] = UserIdOf(Alice)
    /\ \A u \in EffectiveUserIds \ {Alice.id} : user_data'[u] = user_data[u]

NextRoundTrip ==
    \/ feed /\ FromAlice
    \/ poop /\ FromAlice
    \/ pee /\ FromAlice
    \/ medication /\ FromAlice
    \/ vitamind /\ FromAlice
    \/ handle_keyboard_input /\ FromAlice
    \/ free_text /\ FromAlice
    \/ summary

SpecRoundTrip == Init /\ [][NextRoundTrip]_vars

(***************************************************************************)
(* C26.  Round trip of the log: after any sequence of logging commands,    *)
(* buttons and free texts, a summary of the same day reads every appended  *)
(* row with a valid timestamp and skips none, and its Today rollup counts  *)
(* every logged activity once, with feed_total_mins the sum of the logged  *)
(* durations.                                                              *)
(***************************************************************************)
\* The rows of the sheet with the given activity type, and with the given value.
RowsOfType(activity_type) == {i \in 2..Len(worksheet) : worksheet[i][2] = activity_type}
RowsOfValue(value) == {i \in 2..Len(worksheet) : worksheet[i][3] = value}

SevenMins == <<"0", "7", " ", "m", "i", "n", "s">>

\* The durations logged: /feed 15 and the free text 07.
MinutesLogged == 15 * Cardinality(RowsOfValue(FifteenMins)) + 7 * Cardinality(RowsOfValue(SevenMins))

C26_RoundTrip ==
    locals.fetched =>
        /\ NumRecords = Len(worksheet) - 1
        /\ \A k \in 1..NumRecords :
              /\ locals.steps[k].exc = "none"
              /\ AppliedTo(k) = Buckets \ {"yesterday"}
        /\ locals.final.sums["today"].pee = Cardinality(RowsOfType(T_Pee))
        /\ locals.final.sums["today"].poop = Cardinality(RowsOfType(T_Poop))
        /\ locals.final.sums["today"].feed_count = Cardinality(RowsOfType(T_Feed))
        /\ locals.final.sums["today"].medications = Cardinality(RowsOfType(T_Medication))
        /\ locals.final.sums["today"].feed_total_mins = MinutesLogged
        /\ Cardinality(RowsOfType(T_Feed))
              = Cardinality(RowsOfValue(FifteenMins)) + Cardinality(RowsOfValue(SevenMins))

\* /feed 15 and the Feed button answered with 07: two feeds, 22 minutes.
C26_Witness ==
    /\ locals.fetched
    /\ NumRecords = 2
    /\ worksheet[2][3] = FifteenMins
    /\ worksheet[3][3] = SevenMins
    /\ locals.final.sums["today"].feed_count = 2
    /\ locals.final.sums["today"].feed_total_mins = 22

(***************************************************************************)
(* C27.  A feed duration that is missing or not all digits is rejected by  *)
(* /feed and by the free text after the Feed button: the user gets an      *)
(* error message and no row is appended; every Feed row of the sheet has   *)
(* details of the form "<digits> mins".                                    *)
(***************************************************************************)
\* "<digits> mins" read character by character.
DigitsMins(value) ==
    /\ Len(value) > 5
    /\ SubSeq(value, Len(value) - 4, Len(value)) = <<" ", "m", "i", "n", "s">>
    /\ \A i \in 1..(Len(value) - 5) : IsDigit(value[i])

FeedRowsWellFormed ==
    \A i \in 2..Len(worksheet) : worksheet[i][2] = T_Feed => DigitsMins(worksheet[i][3])

FeedRejected ==
    \/ replies' = <<ReplyText("Please specify feed duration")>>
    \/ replies' = <<ReplyText("Invalid input: feed duration")>>

\* The step appended exactly one row, a Feed row of well-formed details.
FeedAppended ==
    /\ Len(worksheet') = Len(worksheet) + 1
    /\ SubSeq(worksheet', 1, Len(worksheet)) = worksheet
    /\ worksheet'[Len(worksheet')][2] = T_Feed
    /\ DigitsMins(worksheet'[Len(worksheet')][3])

C27_FeedDurationChecked ==
    /\ []FeedRowsWellFormed
    /\ [][/\ FeedRejected => worksheet' = worksheet
          /\ feed => \/ FeedAppended /\ Confirmed'
                     \/ worksheet' = worksheet /\ (FeedRejected \/ Refused')
          /\ \A user \in Users, text \in FreeTexts, append_ok \in BOOLEAN :
                (user_data[user.id] = "feed"
                    /\ handle_free_text_input(user, text, append_ok)) =>
                   IF IsDigit(text[1])
                   THEN \/ FeedAppended /\ Confirmed'
                        \/ worksheet' = worksheet /\ Refused'
                   ELSE worksheet' = worksheet /\ FeedRejected]_vars

\* One user's feed of 07 minutes is in the sheet; another's "abc" was refused.
C27_Witness ==
    /\ Len(worksheet) = 2
    /\ worksheet[2][2] = T_Feed /\ worksheet[2][3] = SevenMins
    /\ replies = <<ReplyText("Invalid input: feed duration")>>

(***************************************************************************)
(* C28.  The awaiting flag, per user: a free-text message appends a row    *)
(* only if the flag of its sender is set; once the message is handled,     *)
(* valid or not, the sender's flag is clear; the flag of any other user is *)
(* left as it was, by free texts and by buttons alike.                     *)
(***************************************************************************)
Awaiting(id) == user_data[id] \in {"feed", "medication"}

\* The flags of the users other than id stay as they are.
OthersKept(id) == \A other \in EffectiveUserIds \ {id} : user_data'[other] = user_data[other]

C28_AwaitingFlagProtocol ==
    [][/\ \A user \in Users, text \in FreeTexts, append_ok \in BOOLEAN :
             handle_free_text_input(user, text, append_ok) =>
                /\ worksheet' # worksheet => Awaiting(user.id)
                /\ user_data'[user.id] \notin {"feed", "medication"}
                /\ OthersKept(user.id)
       /\ handle_keyboard_input =>
             \E id \in EffectiveUserIds :
                /\ OthersKept(id)
                /\ user_data'[id] # user_data[id] =>
                      (worksheet' = worksheet /\ user_data'[id] \in {"feed", "medication"})
       /\ Len(worksheet') <= Len(worksheet) + 1]_vars

\* The first user's flag is cleared by the feed they logged; the second user's
\* flag, set meanwhile, still stands.
C28_Witness ==
    /\ user_data[1001] = "cleared"
    /\ user_data[1002] = "medication"
    /\ Len(worksheet) = 2
    /\ worksheet[2][2] = T_Feed
    /\ worksheet[2][4] = <<"a", "l", "i", "c", "e">>
    /\ replies = <<ReplyText("Logged")>>

(***************************************************************************)
(* The webhook endpoint.  The module is imported with                      *)
(* telegram_app_instance = None; setup_bot_application assigns the         *)
(* Application.  A request carries a body that json.loads accepts or not,  *)
(* and an update that process_update handles or raises on; the updates     *)
(* drawn are /pee, /poop, /vitamind and /coldstart.                        *)
(***************************************************************************)
WebhookCommands == {"pee", "poop", "vitamind", "coldstart"}

\* The activity type and the value the handler of a logging command passes on.
LoggedBy(command) ==
    CASE command = "pee"      -> <<T_Pee, T_NA>>
      [] command = "poop"     -> <<T_Poop, T_NA>>
      [] command = "vitamind" -> <<T_Medication, T_VitaminD>>

\* What the try block and its "except Exception" return.
TryOutcome(body_ok, update_ok) ==
    IF ~body_ok THEN [body |-> "Error", status |-> 500]
    ELSE IF telegram_app_instance = "None" THEN [body |-> "Bot not ready", status |-> 500]
    ELSE IF ~update_ok THEN [body |-> "Error", status |-> 500]
    ELSE [body |-> "ok", status |-> 200]

\* finally: return "ok".  The return of a finally block replaces the value the
\* try block or the except block was about to return.
FinallyReturn(tried) == [body |-> "ok", status |-> 200]

\* process_update(update) for the command of the update.
ProcessUpdate(user, command, append_ok) ==
    IF command = "coldstart"
    THEN /\ replies' = <<ReplyText("Bot is awake and ready")>>
         /\ worksheet' = worksheet
    ELSE /\ Len(worksheet) < 1 + MaxRows
         /\ IF append_ok
            THEN /\ worksheet' = Append(worksheet,
                                        <<strftime(clock), LoggedBy(command)[1],
                                          LoggedBy(command)[2], UserIdOf(user)>>)
                 /\ replies' = <<ReplyText("Logged")>>
            ELSE /\ worksheet' = worksheet
                 /\ replies' = <<ReplyText("Failed to log activity")>>

webhook_handler ==
    \E body_ok \in BOOLEAN, update_ok \in BOOLEAN, append_ok \in BOOLEAN,
       user \in Users, command \in WebhookCommands :
        /\ response' = [body |-> FinallyReturn(TryOutcome(body_ok, update_ok)).body,
                        status |-> FinallyReturn(TryOutcome(body_ok, update_ok)).status,
                        app |-> telegram_app_instance,
                        raised |-> ~body_ok \/ (telegram_app_instance # "None" /\ ~update_ok),
                        processed |-> TryOutcome(body_ok, update_ok).body = "ok"]
        /\ IF TryOutcome(body_ok, update_ok).body = "ok"
           THEN ProcessUpdate(user, command, append_ok)
           ELSE /\ replies' = <<>>
                /\ worksheet' = worksheet
        /\ locals' = NoLocals
        /\ UNCHANGED <<clock, queries, startup, user_data, telegram_app_instance>>

\* telegram_app_instance = Application.builder().token(bot_token).build()
setup_bot_application ==
    /\ telegram_app_instance = "None"
    /\ telegram_app_instance' = "Application"
    /\ replies' = <<>>
    /\ locals' = NoLocals
    /\ UNCHANGED <<worksheet, clock, queries, startup, user_data, response>>

InitWebhook ==
    /\ worksheet = <<headers>>
    /\ clock = StartClock
    /\ replies = <<>>
    /\ locals = NoLocals
    /\ queries = [q \in Queries |-> IdleQuery]
    /\ startup = Started
    /\ user_data = NoUserData
    /\ telegram_app_instance = "None"
    /\ response = NoResponse

NextWebhook ==
    \/ setup_bot_application
    \/ webhook_handler

SpecWebhook == InitWebhook /\ [][NextWebhook]_vars

(***************************************************************************)
(* C29.  The webhook handler tells its caller when it could not process    *)
(* the update: "Bot not ready" with status 500 when                        *)
(* telegram_app_instance is None, "Error" with status 500 when processing  *)
(* raises, and "ok" only when the update was processed.                    *)
(***************************************************************************)
Answered == response # NoResponse

C29_WebhookReportsFailure ==
    Answered =>
        /\ response.raised => (response.body = "Error" /\ response.status = 500)
        /\ (~response.raised /\ response.app = "None") =>
              (response.body = "Bot not ready" /\ response.status = 500)
        /\ response.body = "ok" => response.processed

\* A request that reached the bot before it was set up: answered "ok", and
\* nothing was processed.
C29_OkWhenNotReady ==
    /\ Answered
    /\ response.app = "None"
    /\ ~response.raised /\ ~response.processed
    /\ response.body = "ok" /\ response.status = 200
    /\ replies = <<>>

=============================================================================
